---- MODULE Spec2Model ----
(***************************************************************************)
(* Model of the UTAU oto.ini export plugin and of the simple export        *)
(* plugin (src/export_plugins/utau_oto_export.py, simple_export.py).       *)
(*                                                                         *)
(* Phone symbols.  The source tables hold IPA strings.  Every non-ASCII    *)
(* code point is written here as one ASCII character, so that prefix,      *)
(* substring and tone-stripping operations act on the same positions:      *)
(*   U+00FC u-diaeresis  V     U+014B eng            N                     *)
(*   U+0254 open o       O     U+0255 c with curl    C                     *)
(*   U+0256 d with tail  D     U+0259 schwa          E                     *)
(*   U+025A schwa+hook   &     U+025B open e         F                     *)
(*   U+0261 script g     G     U+0264 rams horn      K                     *)
(*   U+0265 turned h     Y     U+0268 i with stroke  I                     *)
(*   U+026F turned m     M     U+0272 n, left hook   B                     *)
(*   U+0278 phi          +     U+027B turned r+hook  R                     *)
(*   U+027E fishhook r   *     U+0282 s with hook    X                     *)
(*   U+0285 squat esh    L     U+0288 retroflex t    T                     *)
(*   U+0289 u bar        U     U+0290 retroflex z    Z                     *)
(*   U+0291 z with curl  ?     U+0294 glottal stop   Q                     *)
(*   U+02B0 superscr. h  H     U+02B2 superscr. j    J                     *)
(*   U+02B7 superscr. w  W     U+02D0 length mark    :                     *)
(*   U+0329 syllabic     ~                                                 *)
(* and the nine tone marks of _strip_tone, in the order of the source      *)
(* string (U+02E5 .. U+02E9, caron, acute, grave, macron):                 *)
(*   !  @  #  $  %  ^  /  |  -                                             *)
(* A kana of ROMAJI_TO_HIRAGANA is written "#" followed by the first       *)
(* romaji key the table lists for it, so two keys of one kana share a      *)
(* value.  Lower-case letters are the source's own ASCII letters.          *)
(*                                                                         *)
(* Time.  Every time and duration is an integer number of ticks,           *)
(* 1 tick = 1e-6 ms; tier times are multiples of 0.01 ms, so that the      *)
(* products with the configured ratios (whole percents) are exact.         *)
(***************************************************************************)
EXTENDS Integers, Sequences, FiniteSets, TLC

VARIABLES
    pc,             \* position in _parse_textgrids for the one transcript
    language,       \* load_language_from_meta
    cvvc_mode,      \* options["cvvc_mode"]
    words_tier,     \* the words tier: <<[mark, minTime, maxTime], ...>>, or <<>>
    intervals,      \* list(phones_tier): <<[mark, minTime, maxTime], ...>>
    i,              \* loop cursor of the running segmenter (0-based)
    entries,        \* oto_entries
    syllables,      \* _extract_vc_pairs: the parsed syllables
    call,           \* a function under test: its name and arguments
    ret,            \* its result, or Pending
    disk,           \* export: what the run did to the export directory
    work            \* export: filtered_entries and the locals of the synthesizer

vars == <<pc, language, cvvc_mode, words_tier, intervals, i, entries,
          syllables, call, ret, disk, work>>

None == "<None>"
\* ret before the function returns; <<v>> once it returned v
Pending == <<>>
Truthy(x) == x # None /\ x # ""

\* ---------------------------------------------------------------- strings

StartsWith(s, p) == Len(s) >= Len(p) /\ SubSeq(s, 1, Len(p)) = p
Contains(s, sub) ==
    \E k \in 1..(Len(s) - Len(sub) + 1) : SubSeq(s, k, k + Len(sub) - 1) = sub

RECURSIVE RemoveChars(_, _)
RemoveChars(s, marks) ==
    IF s = "" THEN ""
    ELSE LET h == SubSeq(s, 1, 1)
             t == RemoveChars(SubSeq(s, 2, Len(s)), marks)
         IN  IF h \in marks THEN t ELSE h \o t

RECURSIVE RStrip(_, _)
RStrip(s, marks) ==
    IF s # "" /\ SubSeq(s, Len(s), Len(s)) \in marks
    THEN RStrip(SubSeq(s, 1, Len(s) - 1), marks)
    ELSE s

RECURSIVE LStrip(_, _)
LStrip(s, marks) ==
    IF s # "" /\ SubSeq(s, 1, 1) \in marks
    THEN LStrip(SubSeq(s, 2, Len(s)), marks)
    ELSE s

\* str.strip(): leading and trailing white space removed
Strip(s) == RStrip(LStrip(s, {" "}), {" "})

\* ----------------------------------------------------------------- tables

CHINESE_CONSONANTS ==
    {"b", "d", "dz", "d?", "f", "g", "h", "j", "k", "kH", "kW", "l", "m", "n", "p",
     "pH", "pJ", "pW", "s", "t", "ts", "tsH", "tC", "tCH", "tH", "tJ", "w", "x", "z",
     "N", "C", "DZ", "G", "Y", "B", "X", "TX", "TXH", "Z", "?", "Q"}

CHINESE_VOWELS ==
    {"a", "aw", "e", "ej", "i", "o", "ow", "u", "y", "z~", "V", "O", "E", "&", "F", "K",
     "I", "R", "L", "U", "Z~"}

CHINESE_MEDIALS ==
    {"j", "w", "Y"}

\* a coda table that also admits a medial
CodasWithGlide == {"n", "N", "i", "u", "w"}

CHINESE_CODAS ==
    {"i", "n", "u", "N"}

JAPANESE_CONSONANTS ==
    {"b", "d", "dz", "d?", "g", "h", "j", "k", "k:", "m", "n", "n:", "p", "p:", "r",
     "s", "s:", "t", "ts", "tC", "t:", "w", "z", "N", "C", "G", "B", "+", "*", "?"}

JAPANESE_VOWELS ==
    {"a", "a:", "e", "e:", "i", "i:", "o", "o:", "u", "u:", "M", "M:"}

SKIP_MARKS ==
    {"", "<unk>", "AP", "SP", "sil", "spn"}

CHINESE_CONSONANT_TO_PINYIN ==
    ((("p" :> "b") @@ ("pH" :> "p") @@ ("pJ" :> "p") @@ ("pW" :> "b")) @@
     (("m" :> "m") @@ ("f" :> "f") @@ ("t" :> "d") @@ ("tH" :> "t")) @@
     (("tJ" :> "d") @@ ("n" :> "n") @@ ("l" :> "l") @@ ("k" :> "g")) @@
     (("kH" :> "k") @@ ("kW" :> "g") @@ ("G" :> "g") @@ ("g" :> "g")) @@
     (("x" :> "h") @@ ("h" :> "h") @@ ("tC" :> "j") @@ ("tCH" :> "q")) @@
     (("C" :> "x") @@ ("ts" :> "z") @@ ("tsH" :> "c") @@ ("s" :> "s")) @@
     (("TX" :> "zh") @@ ("TXH" :> "ch") @@ ("X" :> "sh") @@ ("Z" :> "r")) @@
     (("B" :> "n") @@ ("N" :> "") @@ ("j" :> "") @@ ("w" :> "")) @@
     (("Y" :> "") @@ ("Q" :> "")))

CHINESE_VOWEL_TO_PINYIN ==
    ((("a" :> "a") @@ ("o" :> "o") @@ ("e" :> "e") @@ ("i" :> "i")) @@
     (("u" :> "u") @@ ("y" :> "v") @@ ("V" :> "v") @@ ("E" :> "e")) @@
     (("F" :> "e") @@ ("O" :> "o") @@ ("K" :> "e") @@ ("I" :> "i")) @@
     (("aj" :> "ai") @@ ("aw" :> "ao") @@ ("ej" :> "ei") @@ ("ow" :> "ou")) @@
     (("ai" :> "ai") @@ ("ao" :> "ao") @@ ("ei" :> "ei") @@ ("ou" :> "ou")) @@
     (("ja" :> "ia") @@ ("je" :> "ie") @@ ("jF" :> "ie") @@ ("jao" :> "iao")) @@
     (("jow" :> "iu") @@ ("ju" :> "iu") @@ ("ia" :> "ia") @@ ("ie" :> "ie")) @@
     (("iao" :> "iao") @@ ("iu" :> "iu") @@ ("wa" :> "ua") @@ ("wo" :> "uo")) @@
     (("wO" :> "uo") @@ ("wej" :> "ui") @@ ("waj" :> "uai") @@ ("ua" :> "ua")) @@
     (("uo" :> "uo") @@ ("ui" :> "ui") @@ ("uai" :> "uai") @@ ("Ye" :> "ve"))) @@
    ((("YF" :> "ve") @@ ("ve" :> "ve") @@ ("yue" :> "ve") @@ ("an" :> "an")) @@
     (("en" :> "en") @@ ("ang" :> "ang") @@ ("eng" :> "eng") @@ ("ong" :> "ong")) @@
     (("in" :> "in") @@ ("ing" :> "ing") @@ ("ian" :> "ian") @@ ("iang" :> "iang")) @@
     (("iong" :> "iong") @@ ("uan" :> "uan") @@ ("un" :> "un") @@ ("uang" :> "uang")) @@
     (("ueng" :> "ueng") @@ ("van" :> "van") @@ ("vn" :> "vn") @@ ("z~" :> "i")) @@
     (("Z~" :> "i") @@ ("L" :> "i") @@ ("R" :> "er") @@ ("&" :> "er")))

IPA_SYLLABLE_TO_PINYIN ==
    (((<<"tC", "y">> :> "ju") @@ (<<"tCH", "y">> :> "qu") @@ (<<"C", "y">> :> "xu") @@ (<<"tC", "Y">> :> "ju")) @@
     ((<<"tCH", "Y">> :> "qu") @@ (<<"C", "Y">> :> "xu") @@ (<<"tC", "yF">> :> "jue") @@ (<<"tCH", "yF">> :> "que")) @@
     ((<<"C", "yF">> :> "xue") @@ (<<"tC", "yan">> :> "juan") @@ (<<"tCH", "yan">> :> "quan") @@ (<<"C", "yan">> :> "xuan")) @@
     ((<<"tC", "yn">> :> "jun") @@ (<<"tCH", "yn">> :> "qun") @@ (<<"C", "yn">> :> "xun") @@ (<<"", "i">> :> "yi")) @@
     ((<<"", "in">> :> "yin") @@ (<<"", "ing">> :> "ying") @@ (<<"", "u">> :> "wu") @@ (<<"", "un">> :> "wen")) @@
     ((<<"", "ong">> :> "weng") @@ (<<"", "y">> :> "yu") @@ (<<"", "yn">> :> "yun") @@ (<<"", "ia">> :> "ya")) @@
     ((<<"", "iF">> :> "ye") @@ (<<"", "ie">> :> "ye") @@ (<<"", "iao">> :> "yao") @@ (<<"", "ian">> :> "yan")) @@
     ((<<"", "iang">> :> "yang") @@ (<<"", "iou">> :> "you") @@ (<<"", "iu">> :> "you") @@ (<<"", "iong">> :> "yong")) @@
     ((<<"", "ua">> :> "wa") @@ (<<"", "uO">> :> "wo") @@ (<<"", "uo">> :> "wo") @@ (<<"", "uai">> :> "wai")) @@
     ((<<"", "uei">> :> "wei") @@ (<<"", "ui">> :> "wei") @@ (<<"", "uan">> :> "wan") @@ (<<"", "uen">> :> "wen"))) @@
    (((<<"", "uang">> :> "wang") @@ (<<"", "ueng">> :> "weng") @@ (<<"", "yF">> :> "yue") @@ (<<"", "Ve">> :> "yue")) @@
     ((<<"", "yan">> :> "yuan") @@ (<<"", "Van">> :> "yuan") @@ (<<"", "Vn">> :> "yun") @@ (<<"TX", "Z~">> :> "zhi")) @@
     ((<<"TXH", "Z~">> :> "chi") @@ (<<"X", "Z~">> :> "shi") @@ (<<"Z", "Z~">> :> "ri") @@ (<<"TX", "z~">> :> "zhi")) @@
     ((<<"TXH", "z~">> :> "chi") @@ (<<"X", "z~">> :> "shi") @@ (<<"Z", "z~">> :> "ri") @@ (<<"TX", "L">> :> "zhi")) @@
     ((<<"TXH", "L">> :> "chi") @@ (<<"X", "L">> :> "shi") @@ (<<"Z", "L">> :> "ri") @@ (<<"ts", "z~">> :> "zi")) @@
     ((<<"tsH", "z~">> :> "ci") @@ (<<"s", "z~">> :> "si") @@ (<<"ts", "L">> :> "zi") @@ (<<"tsH", "L">> :> "ci")) @@
     ((<<"s", "L">> :> "si") @@ (<<"n", "y">> :> "nv") @@ (<<"l", "y">> :> "lv") @@ (<<"n", "yF">> :> "nve")) @@
     ((<<"l", "yF">> :> "lve") @@ (<<"Q", "a">> :> "a") @@ (<<"Q", "o">> :> "o") @@ (<<"Q", "e">> :> "e")) @@
     ((<<"Q", "ai">> :> "ai") @@ (<<"Q", "ei">> :> "ei") @@ (<<"Q", "ao">> :> "ao") @@ (<<"Q", "ou">> :> "ou")) @@
     ((<<"Q", "an">> :> "an") @@ (<<"Q", "en">> :> "en") @@ (<<"Q", "ang">> :> "ang") @@ (<<"Q", "eng">> :> "eng"))) @@
    (((<<"Q", "ej">> :> "ei") @@ (<<"Q", "aw">> :> "ao") @@ (<<"Q", "ow">> :> "ou") @@ (<<"", "R">> :> "er")) @@
     ((<<"", "&">> :> "er")))

JAPANESE_IPA_TO_ROMAJI ==
    ((("p" :> "p") @@ ("b" :> "b") @@ ("m" :> "m") @@ ("+" :> "f")) @@
     (("t" :> "t") @@ ("d" :> "d") @@ ("n" :> "n") @@ ("s" :> "s")) @@
     (("z" :> "z") @@ ("*" :> "r") @@ ("r" :> "r") @@ ("k" :> "k")) @@
     (("G" :> "g") @@ ("g" :> "g") @@ ("h" :> "h") @@ ("tC" :> "ch")) @@
     (("d?" :> "j") @@ ("C" :> "sh") @@ ("?" :> "j") @@ ("ts" :> "ts")) @@
     (("dz" :> "z") @@ ("B" :> "ny") @@ ("N" :> "ng") @@ ("j" :> "y")) @@
     (("w" :> "w") @@ ("n:" :> "n") @@ ("s:" :> "s") @@ ("t:" :> "t")) @@
     (("k:" :> "k") @@ ("p:" :> "p") @@ ("a" :> "a") @@ ("i" :> "i")) @@
     (("M" :> "u") @@ ("u" :> "u") @@ ("e" :> "e") @@ ("o" :> "o")) @@
     (("a:" :> "a") @@ ("i:" :> "i") @@ ("M:" :> "u") @@ ("u:" :> "u"))) @@
    ((("e:" :> "e") @@ ("o:" :> "o")))

ROMAJI_TO_HIRAGANA ==
    ((("a" :> "#a") @@ ("i" :> "#i") @@ ("u" :> "#u") @@ ("e" :> "#e")) @@
     (("o" :> "#o") @@ ("ka" :> "#ka") @@ ("ki" :> "#ki") @@ ("ku" :> "#ku")) @@
     (("ke" :> "#ke") @@ ("ko" :> "#ko") @@ ("sa" :> "#sa") @@ ("shi" :> "#shi")) @@
     (("si" :> "#shi") @@ ("su" :> "#su") @@ ("se" :> "#se") @@ ("so" :> "#so")) @@
     (("ta" :> "#ta") @@ ("chi" :> "#chi") @@ ("ti" :> "#chi") @@ ("tsu" :> "#tsu")) @@
     (("tu" :> "#tsu") @@ ("te" :> "#te") @@ ("to" :> "#to") @@ ("na" :> "#na")) @@
     (("ni" :> "#ni") @@ ("nu" :> "#nu") @@ ("ne" :> "#ne") @@ ("no" :> "#no")) @@
     (("ha" :> "#ha") @@ ("hi" :> "#hi") @@ ("fu" :> "#fu") @@ ("hu" :> "#fu")) @@
     (("he" :> "#he") @@ ("ho" :> "#ho") @@ ("ma" :> "#ma") @@ ("mi" :> "#mi")) @@
     (("mu" :> "#mu") @@ ("me" :> "#me") @@ ("mo" :> "#mo") @@ ("ya" :> "#ya"))) @@
    ((("yu" :> "#yu") @@ ("yo" :> "#yo") @@ ("ra" :> "#ra") @@ ("ri" :> "#ri")) @@
     (("ru" :> "#ru") @@ ("re" :> "#re") @@ ("ro" :> "#ro") @@ ("wa" :> "#wa")) @@
     (("wo" :> "#wo") @@ ("n" :> "#n") @@ ("ga" :> "#ga") @@ ("gi" :> "#gi")) @@
     (("gu" :> "#gu") @@ ("ge" :> "#ge") @@ ("go" :> "#go") @@ ("za" :> "#za")) @@
     (("ji" :> "#ji") @@ ("zi" :> "#ji") @@ ("zu" :> "#zu") @@ ("ze" :> "#ze")) @@
     (("zo" :> "#zo") @@ ("da" :> "#da") @@ ("di" :> "#di") @@ ("du" :> "#du")) @@
     (("de" :> "#de") @@ ("do" :> "#do") @@ ("ba" :> "#ba") @@ ("bi" :> "#bi")) @@
     (("bu" :> "#bu") @@ ("be" :> "#be") @@ ("bo" :> "#bo") @@ ("pa" :> "#pa")) @@
     (("pi" :> "#pi") @@ ("pu" :> "#pu") @@ ("pe" :> "#pe") @@ ("po" :> "#po")) @@
     (("kya" :> "#kya") @@ ("kyu" :> "#kyu") @@ ("kyo" :> "#kyo") @@ ("sha" :> "#sha"))) @@
    ((("shu" :> "#shu") @@ ("sho" :> "#sho") @@ ("cha" :> "#cha") @@ ("chu" :> "#chu")) @@
     (("cho" :> "#cho") @@ ("nya" :> "#nya") @@ ("nyu" :> "#nyu") @@ ("nyo" :> "#nyo")) @@
     (("hya" :> "#hya") @@ ("hyu" :> "#hyu") @@ ("hyo" :> "#hyo") @@ ("mya" :> "#mya")) @@
     (("myu" :> "#myu") @@ ("myo" :> "#myo") @@ ("rya" :> "#rya") @@ ("ryu" :> "#ryu")) @@
     (("ryo" :> "#ryo") @@ ("gya" :> "#gya") @@ ("gyu" :> "#gyu") @@ ("gyo" :> "#gyo")) @@
     (("ja" :> "#ja") @@ ("ju" :> "#ju") @@ ("jo" :> "#jo") @@ ("bya" :> "#bya")) @@
     (("byu" :> "#byu") @@ ("byo" :> "#byo") @@ ("pya" :> "#pya") @@ ("pyu" :> "#pyu")) @@
     (("pyo" :> "#pyo")))

FUZZY_CONSONANT_GROUPS ==
    <<<<"sh", "s">>, <<"zh", "z">>, <<"ch", "c">>, <<"l", "n", "r">>, <<"f", "h">>>>

FUZZY_VOWEL_GROUPS ==
    <<<<"an", "ang">>, <<"en", "eng", "ong">>, <<"in", "ing">>, <<"ian", "iang">>,
      <<"uan", "uang">>, <<"ia", "ian">>, <<"ie", "ian">>, <<"iao", "ian">>,
      <<"iu", "in">>, <<"ua", "uan">>, <<"uo", "un">>, <<"ui", "un">>, <<"uai", "uan">>,
      <<"a", "ai", "ao", "an">>, <<"o", "ou", "ong">>, <<"e", "ei", "en">>>>

vowel_map ==
    ((("a" :> "a") @@ ("ba" :> "a") @@ ("pa" :> "a") @@ ("ma" :> "a")) @@
     (("fa" :> "a") @@ ("da" :> "a") @@ ("ta" :> "a") @@ ("na" :> "a")) @@
     (("la" :> "a") @@ ("ga" :> "a") @@ ("ka" :> "a") @@ ("ha" :> "a")) @@
     (("zha" :> "a") @@ ("cha" :> "a") @@ ("sha" :> "a") @@ ("za" :> "a")) @@
     (("ca" :> "a") @@ ("sa" :> "a") @@ ("ya" :> "a") @@ ("lia" :> "a")) @@
     (("jia" :> "a") @@ ("qia" :> "a") @@ ("xia" :> "a") @@ ("wa" :> "a")) @@
     (("gua" :> "a") @@ ("kua" :> "a") @@ ("hua" :> "a") @@ ("zhua" :> "a")) @@
     (("shua" :> "a") @@ ("dia" :> "a") @@ ("ai" :> "ai") @@ ("bai" :> "ai")) @@
     (("pai" :> "ai") @@ ("mai" :> "ai") @@ ("dai" :> "ai") @@ ("tai" :> "ai")) @@
     (("nai" :> "ai") @@ ("lai" :> "ai") @@ ("gai" :> "ai") @@ ("kai" :> "ai"))) @@
    ((("hai" :> "ai") @@ ("zhai" :> "ai") @@ ("chai" :> "ai") @@ ("shai" :> "ai")) @@
     (("zai" :> "ai") @@ ("cai" :> "ai") @@ ("sai" :> "ai") @@ ("wai" :> "ai")) @@
     (("guai" :> "ai") @@ ("kuai" :> "ai") @@ ("huai" :> "ai") @@ ("zhuai" :> "ai")) @@
     (("chuai" :> "ai") @@ ("shuai" :> "ai") @@ ("an" :> "an") @@ ("ban" :> "an")) @@
     (("pan" :> "an") @@ ("man" :> "an") @@ ("fan" :> "an") @@ ("dan" :> "an")) @@
     (("tan" :> "an") @@ ("nan" :> "an") @@ ("lan" :> "an") @@ ("gan" :> "an")) @@
     (("kan" :> "an") @@ ("han" :> "an") @@ ("zhan" :> "an") @@ ("chan" :> "an")) @@
     (("shan" :> "an") @@ ("ran" :> "an") @@ ("zan" :> "an") @@ ("can" :> "an")) @@
     (("san" :> "an") @@ ("wan" :> "an") @@ ("duan" :> "an") @@ ("tuan" :> "an")) @@
     (("nuan" :> "an") @@ ("luan" :> "an") @@ ("guan" :> "an") @@ ("kuan" :> "an"))) @@
    ((("huan" :> "an") @@ ("zhuan" :> "an") @@ ("chuan" :> "an") @@ ("shuan" :> "an")) @@
     (("ruan" :> "an") @@ ("zuan" :> "an") @@ ("cuan" :> "an") @@ ("suan" :> "an")) @@
     (("ang" :> "ang") @@ ("bang" :> "ang") @@ ("pang" :> "ang") @@ ("mang" :> "ang")) @@
     (("fang" :> "ang") @@ ("dang" :> "ang") @@ ("tang" :> "ang") @@ ("nang" :> "ang")) @@
     (("lang" :> "ang") @@ ("gang" :> "ang") @@ ("kang" :> "ang") @@ ("hang" :> "ang")) @@
     (("zhang" :> "ang") @@ ("chang" :> "ang") @@ ("shang" :> "ang") @@ ("rang" :> "ang")) @@
     (("zang" :> "ang") @@ ("cang" :> "ang") @@ ("sang" :> "ang") @@ ("yang" :> "ang")) @@
     (("liang" :> "ang") @@ ("jiang" :> "ang") @@ ("qiang" :> "ang") @@ ("xiang" :> "ang")) @@
     (("wang" :> "ang") @@ ("guang" :> "ang") @@ ("kuang" :> "ang") @@ ("huang" :> "ang")) @@
     (("zhuang" :> "ang") @@ ("chuang" :> "ang") @@ ("shuang" :> "ang") @@ ("niang" :> "ang"))) @@
    ((("ao" :> "ao") @@ ("bao" :> "ao") @@ ("pao" :> "ao") @@ ("mao" :> "ao")) @@
     (("dao" :> "ao") @@ ("tao" :> "ao") @@ ("nao" :> "ao") @@ ("lao" :> "ao")) @@
     (("gao" :> "ao") @@ ("kao" :> "ao") @@ ("hao" :> "ao") @@ ("zhao" :> "ao")) @@
     (("chao" :> "ao") @@ ("shao" :> "ao") @@ ("rao" :> "ao") @@ ("zao" :> "ao")) @@
     (("cao" :> "ao") @@ ("sao" :> "ao") @@ ("yao" :> "ao") @@ ("biao" :> "ao")) @@
     (("piao" :> "ao") @@ ("miao" :> "ao") @@ ("diao" :> "ao") @@ ("tiao" :> "ao")) @@
     (("niao" :> "ao") @@ ("liao" :> "ao") @@ ("jiao" :> "ao") @@ ("qiao" :> "ao")) @@
     (("xiao" :> "ao") @@ ("e" :> "e") @@ ("me" :> "e") @@ ("de" :> "e")) @@
     (("te" :> "e") @@ ("ne" :> "e") @@ ("le" :> "e") @@ ("ge" :> "e")) @@
     (("ke" :> "e") @@ ("he" :> "e") @@ ("zhe" :> "e") @@ ("che" :> "e"))) @@
    ((("she" :> "e") @@ ("re" :> "e") @@ ("ze" :> "e") @@ ("ce" :> "e")) @@
     (("se" :> "e") @@ ("ye" :> "e0") @@ ("bie" :> "e0") @@ ("pie" :> "e0")) @@
     (("mie" :> "e0") @@ ("die" :> "e0") @@ ("tie" :> "e0") @@ ("nie" :> "e0")) @@
     (("lie" :> "e0") @@ ("jie" :> "e0") @@ ("qie" :> "e0") @@ ("xie" :> "e0")) @@
     (("yue" :> "e0") @@ ("nue" :> "e0") @@ ("lue" :> "e0") @@ ("jue" :> "e0")) @@
     (("que" :> "e0") @@ ("xue" :> "e0") @@ ("ei" :> "ei") @@ ("bei" :> "ei")) @@
     (("pei" :> "ei") @@ ("mei" :> "ei") @@ ("fei" :> "ei") @@ ("dei" :> "ei")) @@
     (("tei" :> "ei") @@ ("nei" :> "ei") @@ ("lei" :> "ei") @@ ("gei" :> "ei")) @@
     (("kei" :> "ei") @@ ("hei" :> "ei") @@ ("zhei" :> "ei") @@ ("shei" :> "ei")) @@
     (("zei" :> "ei") @@ ("wei" :> "ei") @@ ("dui" :> "ei") @@ ("tui" :> "ei"))) @@
    ((("gui" :> "ei") @@ ("kui" :> "ei") @@ ("hui" :> "ei") @@ ("zhui" :> "ei")) @@
     (("chui" :> "ei") @@ ("shui" :> "ei") @@ ("rui" :> "ei") @@ ("zui" :> "ei")) @@
     (("cui" :> "ei") @@ ("sui" :> "ei") @@ ("en" :> "en") @@ ("ben" :> "en")) @@
     (("pen" :> "en") @@ ("men" :> "en") @@ ("fen" :> "en") @@ ("nen" :> "en")) @@
     (("gen" :> "en") @@ ("ken" :> "en") @@ ("hen" :> "en") @@ ("zhen" :> "en")) @@
     (("chen" :> "en") @@ ("shen" :> "en") @@ ("ren" :> "en") @@ ("zen" :> "en")) @@
     (("cen" :> "en") @@ ("sen" :> "en") @@ ("wen" :> "en") @@ ("dun" :> "en")) @@
     (("tun" :> "en") @@ ("lun" :> "en") @@ ("gun" :> "en") @@ ("kun" :> "en")) @@
     (("hun" :> "en") @@ ("zhun" :> "en") @@ ("chun" :> "en") @@ ("shun" :> "en")) @@
     (("run" :> "en") @@ ("zun" :> "en") @@ ("cun" :> "en") @@ ("sun" :> "en"))) @@
    ((("yan" :> "en0") @@ ("bian" :> "en0") @@ ("pian" :> "en0") @@ ("mian" :> "en0")) @@
     (("dian" :> "en0") @@ ("tian" :> "en0") @@ ("nian" :> "en0") @@ ("lian" :> "en0")) @@
     (("jian" :> "en0") @@ ("qian" :> "en0") @@ ("xian" :> "en0") @@ ("yuan" :> "en0")) @@
     (("juan" :> "en0") @@ ("quan" :> "en0") @@ ("xuan" :> "en0") @@ ("beng" :> "eng")) @@
     (("peng" :> "eng") @@ ("meng" :> "eng") @@ ("feng" :> "eng") @@ ("deng" :> "eng")) @@
     (("teng" :> "eng") @@ ("neng" :> "eng") @@ ("leng" :> "eng") @@ ("geng" :> "eng")) @@
     (("keng" :> "eng") @@ ("heng" :> "eng") @@ ("weng" :> "eng") @@ ("zheng" :> "eng")) @@
     (("cheng" :> "eng") @@ ("sheng" :> "eng") @@ ("reng" :> "eng") @@ ("zeng" :> "eng")) @@
     (("ceng" :> "eng") @@ ("seng" :> "eng") @@ ("er" :> "er") @@ ("bi" :> "i")) @@
     (("pi" :> "i") @@ ("mi" :> "i") @@ ("di" :> "i") @@ ("ti" :> "i"))) @@
    ((("ni" :> "i") @@ ("li" :> "i") @@ ("ji" :> "i") @@ ("qi" :> "i")) @@
     (("xi" :> "i") @@ ("yi" :> "i") @@ ("yin" :> "in") @@ ("bin" :> "in")) @@
     (("pin" :> "in") @@ ("min" :> "in") @@ ("nin" :> "in") @@ ("lin" :> "in")) @@
     (("jin" :> "in") @@ ("qin" :> "in") @@ ("xin" :> "in") @@ ("ying" :> "ing")) @@
     (("bing" :> "ing") @@ ("ping" :> "ing") @@ ("ming" :> "ing") @@ ("ding" :> "ing")) @@
     (("ting" :> "ing") @@ ("ning" :> "ing") @@ ("ling" :> "ing") @@ ("jing" :> "ing")) @@
     (("qing" :> "ing") @@ ("xing" :> "ing") @@ ("zi" :> "i0") @@ ("ci" :> "i0")) @@
     (("si" :> "i0") @@ ("zhi" :> "ir") @@ ("chi" :> "ir") @@ ("shi" :> "ir")) @@
     (("ri" :> "ir") @@ ("bo" :> "o") @@ ("po" :> "o") @@ ("mo" :> "o")) @@
     (("fo" :> "o") @@ ("wo" :> "o") @@ ("duo" :> "o") @@ ("tuo" :> "o"))) @@
    ((("nuo" :> "o") @@ ("luo" :> "o") @@ ("guo" :> "o") @@ ("kuo" :> "o")) @@
     (("huo" :> "o") @@ ("zhuo" :> "o") @@ ("chuo" :> "o") @@ ("shuo" :> "o")) @@
     (("ruo" :> "o") @@ ("zuo" :> "o") @@ ("cuo" :> "o") @@ ("suo" :> "o")) @@
     (("dong" :> "ong") @@ ("tong" :> "ong") @@ ("nong" :> "ong") @@ ("long" :> "ong")) @@
     (("gong" :> "ong") @@ ("kong" :> "ong") @@ ("hong" :> "ong") @@ ("zhong" :> "ong")) @@
     (("chong" :> "ong") @@ ("rong" :> "ong") @@ ("zong" :> "ong") @@ ("cong" :> "ong")) @@
     (("song" :> "ong") @@ ("yong" :> "ong") @@ ("jiong" :> "ong") @@ ("qiong" :> "ong")) @@
     (("xiong" :> "ong") @@ ("ou" :> "ou") @@ ("pou" :> "ou") @@ ("mou" :> "ou")) @@
     (("fou" :> "ou") @@ ("dou" :> "ou") @@ ("tou" :> "ou") @@ ("lou" :> "ou")) @@
     (("gou" :> "ou") @@ ("kou" :> "ou") @@ ("hou" :> "ou") @@ ("zhou" :> "ou"))) @@
    ((("chou" :> "ou") @@ ("shou" :> "ou") @@ ("rou" :> "ou") @@ ("zou" :> "ou")) @@
     (("cou" :> "ou") @@ ("sou" :> "ou") @@ ("you" :> "ou") @@ ("miu" :> "ou")) @@
     (("diu" :> "ou") @@ ("niu" :> "ou") @@ ("liu" :> "ou") @@ ("jiu" :> "ou")) @@
     (("qiu" :> "ou") @@ ("xiu" :> "ou") @@ ("bu" :> "u") @@ ("pu" :> "u")) @@
     (("mu" :> "u") @@ ("fu" :> "u") @@ ("du" :> "u") @@ ("tu" :> "u")) @@
     (("nu" :> "u") @@ ("lu" :> "u") @@ ("gu" :> "u") @@ ("ku" :> "u")) @@
     (("hu" :> "u") @@ ("zhu" :> "u") @@ ("chu" :> "u") @@ ("shu" :> "u")) @@
     (("ru" :> "u") @@ ("zu" :> "u") @@ ("cu" :> "u") @@ ("su" :> "u")) @@
     (("wu" :> "u") @@ ("yu" :> "v") @@ ("nv" :> "v") @@ ("lv" :> "v")) @@
     (("ju" :> "v") @@ ("qu" :> "v") @@ ("xu" :> "v") @@ ("yun" :> "vn"))) @@
    ((("jun" :> "vn") @@ ("qun" :> "vn") @@ ("xun" :> "vn")))

consonant_map ==
    ((("ba" :> "b") @@ ("bai" :> "b") @@ ("ban" :> "b") @@ ("bang" :> "b")) @@
     (("bao" :> "b") @@ ("biao" :> "b") @@ ("bie" :> "b") @@ ("bei" :> "b")) @@
     (("ben" :> "b") @@ ("bian" :> "b") @@ ("beng" :> "b") @@ ("bi" :> "b")) @@
     (("bin" :> "b") @@ ("bing" :> "b") @@ ("bo" :> "b") @@ ("bu" :> "b")) @@
     (("pa" :> "p") @@ ("pai" :> "p") @@ ("pan" :> "p") @@ ("pang" :> "p")) @@
     (("pao" :> "p") @@ ("piao" :> "p") @@ ("pie" :> "p") @@ ("pei" :> "p")) @@
     (("pen" :> "p") @@ ("pian" :> "p") @@ ("peng" :> "p") @@ ("pi" :> "p")) @@
     (("pin" :> "p") @@ ("ping" :> "p") @@ ("po" :> "p") @@ ("pou" :> "p")) @@
     (("pu" :> "p") @@ ("ma" :> "m") @@ ("mai" :> "m") @@ ("man" :> "m")) @@
     (("mang" :> "m") @@ ("mao" :> "m") @@ ("me" :> "m") @@ ("mei" :> "m"))) @@
    ((("men" :> "m") @@ ("meng" :> "m") @@ ("mo" :> "m") @@ ("mou" :> "m")) @@
     (("mu" :> "m") @@ ("fa" :> "f") @@ ("fan" :> "f") @@ ("fang" :> "f")) @@
     (("fei" :> "f") @@ ("fen" :> "f") @@ ("feng" :> "f") @@ ("fo" :> "f")) @@
     (("fou" :> "f") @@ ("fu" :> "f") @@ ("da" :> "d") @@ ("dia" :> "d")) @@
     (("dai" :> "d") @@ ("dan" :> "d") @@ ("duan" :> "d") @@ ("dang" :> "d")) @@
     (("dao" :> "d") @@ ("diao" :> "d") @@ ("de" :> "d") @@ ("die" :> "d")) @@
     (("dei" :> "d") @@ ("dui" :> "d") @@ ("dun" :> "d") @@ ("dian" :> "d")) @@
     (("deng" :> "d") @@ ("di" :> "d") @@ ("ding" :> "d") @@ ("duo" :> "d")) @@
     (("dong" :> "d") @@ ("dou" :> "d") @@ ("diu" :> "d") @@ ("du" :> "d")) @@
     (("ta" :> "t") @@ ("tai" :> "t") @@ ("tan" :> "t") @@ ("tuan" :> "t"))) @@
    ((("tang" :> "t") @@ ("tao" :> "t") @@ ("tiao" :> "t") @@ ("te" :> "t")) @@
     (("tie" :> "t") @@ ("tei" :> "t") @@ ("tui" :> "t") @@ ("tun" :> "t")) @@
     (("tian" :> "t") @@ ("teng" :> "t") @@ ("ti" :> "t") @@ ("ting" :> "t")) @@
     (("tuo" :> "t") @@ ("tong" :> "t") @@ ("tou" :> "t") @@ ("tu" :> "t")) @@
     (("na" :> "n") @@ ("nai" :> "n") @@ ("nan" :> "n") @@ ("nuan" :> "n")) @@
     (("nang" :> "n") @@ ("nao" :> "n") @@ ("ne" :> "n") @@ ("nue" :> "n")) @@
     (("nei" :> "n") @@ ("nen" :> "n") @@ ("neng" :> "n") @@ ("nuo" :> "n")) @@
     (("nong" :> "n") @@ ("nu" :> "n") @@ ("nv" :> "n") @@ ("la" :> "l")) @@
     (("lai" :> "l") @@ ("lan" :> "l") @@ ("luan" :> "l") @@ ("lang" :> "l")) @@
     (("lao" :> "l") @@ ("le" :> "l") @@ ("lue" :> "l") @@ ("lei" :> "l"))) @@
    ((("lun" :> "l") @@ ("leng" :> "l") @@ ("luo" :> "l") @@ ("long" :> "l")) @@
     (("lou" :> "l") @@ ("lu" :> "l") @@ ("lv" :> "l") @@ ("ga" :> "g")) @@
     (("gua" :> "g") @@ ("gai" :> "g") @@ ("guai" :> "g") @@ ("gan" :> "g")) @@
     (("guan" :> "g") @@ ("gang" :> "g") @@ ("guang" :> "g") @@ ("gao" :> "g")) @@
     (("ge" :> "g") @@ ("gei" :> "g") @@ ("gui" :> "g") @@ ("gen" :> "g")) @@
     (("gun" :> "g") @@ ("geng" :> "g") @@ ("guo" :> "g") @@ ("gong" :> "g")) @@
     (("gou" :> "g") @@ ("gu" :> "g") @@ ("ka" :> "k") @@ ("kua" :> "k")) @@
     (("kai" :> "k") @@ ("kuai" :> "k") @@ ("kan" :> "k") @@ ("kuan" :> "k")) @@
     (("kang" :> "k") @@ ("kuang" :> "k") @@ ("kao" :> "k") @@ ("ke" :> "k")) @@
     (("kei" :> "k") @@ ("kui" :> "k") @@ ("ken" :> "k") @@ ("kun" :> "k"))) @@
    ((("keng" :> "k") @@ ("kuo" :> "k") @@ ("kong" :> "k") @@ ("kou" :> "k")) @@
     (("ku" :> "k") @@ ("ha" :> "h") @@ ("hai" :> "h") @@ ("han" :> "h")) @@
     (("hang" :> "h") @@ ("hao" :> "h") @@ ("he" :> "h") @@ ("hei" :> "h")) @@
     (("hen" :> "h") @@ ("heng" :> "h") @@ ("hong" :> "h") @@ ("hou" :> "h")) @@
     (("zha" :> "zh") @@ ("zhua" :> "zh") @@ ("zhai" :> "zh") @@ ("zhuai" :> "zh")) @@
     (("zhan" :> "zh") @@ ("zhuan" :> "zh") @@ ("zhang" :> "zh") @@ ("zhuang" :> "zh")) @@
     (("zhao" :> "zh") @@ ("zhe" :> "zh") @@ ("zhei" :> "zh") @@ ("zhui" :> "zh")) @@
     (("zhen" :> "zh") @@ ("zhun" :> "zh") @@ ("zheng" :> "zh") @@ ("zhi" :> "zh")) @@
     (("zhuo" :> "zh") @@ ("zhong" :> "zh") @@ ("zhou" :> "zh") @@ ("zhu" :> "zh")) @@
     (("cha" :> "ch") @@ ("chai" :> "ch") @@ ("chuai" :> "ch") @@ ("chan" :> "ch"))) @@
    ((("chuan" :> "ch") @@ ("chang" :> "ch") @@ ("chuang" :> "ch") @@ ("chao" :> "ch")) @@
     (("che" :> "ch") @@ ("chui" :> "ch") @@ ("chen" :> "ch") @@ ("chun" :> "ch")) @@
     (("cheng" :> "ch") @@ ("chi" :> "ch") @@ ("chuo" :> "ch") @@ ("chong" :> "ch")) @@
     (("chou" :> "ch") @@ ("chu" :> "ch") @@ ("sha" :> "sh") @@ ("shai" :> "sh")) @@
     (("shan" :> "sh") @@ ("shang" :> "sh") @@ ("shao" :> "sh") @@ ("she" :> "sh")) @@
     (("shei" :> "sh") @@ ("shen" :> "sh") @@ ("sheng" :> "sh") @@ ("shi" :> "sh")) @@
     (("shou" :> "sh") @@ ("za" :> "z") @@ ("zai" :> "z") @@ ("zan" :> "z")) @@
     (("zuan" :> "z") @@ ("zang" :> "z") @@ ("zao" :> "z") @@ ("ze" :> "z")) @@
     (("zei" :> "z") @@ ("zui" :> "z") @@ ("zen" :> "z") @@ ("zun" :> "z")) @@
     (("zeng" :> "z") @@ ("zi" :> "z") @@ ("zuo" :> "z") @@ ("zong" :> "z"))) @@
    ((("zou" :> "z") @@ ("zu" :> "z") @@ ("ca" :> "c") @@ ("cai" :> "c")) @@
     (("can" :> "c") @@ ("cuan" :> "c") @@ ("cang" :> "c") @@ ("cao" :> "c")) @@
     (("ce" :> "c") @@ ("cui" :> "c") @@ ("cen" :> "c") @@ ("cun" :> "c")) @@
     (("ceng" :> "c") @@ ("ci" :> "c") @@ ("cuo" :> "c") @@ ("cong" :> "c")) @@
     (("cou" :> "c") @@ ("cu" :> "c") @@ ("sa" :> "s") @@ ("sai" :> "s")) @@
     (("san" :> "s") @@ ("sang" :> "s") @@ ("sao" :> "s") @@ ("se" :> "s")) @@
     (("sen" :> "s") @@ ("seng" :> "s") @@ ("si" :> "s") @@ ("song" :> "s")) @@
     (("sou" :> "s") @@ ("ya" :> "y") @@ ("yang" :> "y") @@ ("yao" :> "y")) @@
     (("ye" :> "y") @@ ("yan" :> "y") @@ ("yi" :> "y") @@ ("yin" :> "y")) @@
     (("ying" :> "y") @@ ("yong" :> "y") @@ ("you" :> "y") @@ ("lia" :> "ly"))) @@
    ((("liang" :> "ly") @@ ("liao" :> "ly") @@ ("lie" :> "ly") @@ ("lian" :> "ly")) @@
     (("li" :> "ly") @@ ("lin" :> "ly") @@ ("ling" :> "ly") @@ ("liu" :> "ly")) @@
     (("jia" :> "j") @@ ("jiang" :> "j") @@ ("jiao" :> "j") @@ ("jie" :> "j")) @@
     (("jue" :> "j") @@ ("jian" :> "j") @@ ("juan" :> "j") @@ ("ji" :> "j")) @@
     (("jin" :> "j") @@ ("jing" :> "j") @@ ("jiong" :> "j") @@ ("jiu" :> "j")) @@
     (("ju" :> "j") @@ ("jun" :> "j") @@ ("qia" :> "q") @@ ("qiang" :> "q")) @@
     (("qiao" :> "q") @@ ("qie" :> "q") @@ ("que" :> "q") @@ ("qian" :> "q")) @@
     (("quan" :> "q") @@ ("qi" :> "q") @@ ("qin" :> "q") @@ ("qing" :> "q")) @@
     (("qiong" :> "q") @@ ("qiu" :> "q") @@ ("qu" :> "q") @@ ("qun" :> "q")) @@
     (("xia" :> "xy") @@ ("xiang" :> "xy") @@ ("xiao" :> "xy") @@ ("xie" :> "xy"))) @@
    ((("xian" :> "xy") @@ ("xi" :> "xy") @@ ("xin" :> "xy") @@ ("xing" :> "xy")) @@
     (("xiong" :> "xy") @@ ("xiu" :> "xy") @@ ("wa" :> "w") @@ ("wai" :> "w")) @@
     (("wan" :> "w") @@ ("wang" :> "w") @@ ("wei" :> "w") @@ ("wen" :> "w")) @@
     (("weng" :> "w") @@ ("wo" :> "w") @@ ("wu" :> "w") @@ ("hua" :> "hw")) @@
     (("huai" :> "hw") @@ ("huan" :> "hw") @@ ("huang" :> "hw") @@ ("hui" :> "hw")) @@
     (("hun" :> "hw") @@ ("huo" :> "hw") @@ ("hu" :> "hw") @@ ("shua" :> "shw")) @@
     (("shuai" :> "shw") @@ ("shuan" :> "shw") @@ ("shuang" :> "shw") @@ ("shui" :> "shw")) @@
     (("shun" :> "shw") @@ ("shuo" :> "shw") @@ ("shu" :> "shw") @@ ("ran" :> "r")) @@
     (("ruan" :> "r") @@ ("rang" :> "r") @@ ("rao" :> "r") @@ ("re" :> "r")) @@
     (("rui" :> "r") @@ ("ren" :> "r") @@ ("run" :> "r") @@ ("reng" :> "r"))) @@
    ((("ri" :> "r") @@ ("ruo" :> "r") @@ ("rong" :> "r") @@ ("rou" :> "r")) @@
     (("ru" :> "r") @@ ("suan" :> "sw") @@ ("sui" :> "sw") @@ ("sun" :> "sw")) @@
     (("suo" :> "sw") @@ ("su" :> "sw") @@ ("niang" :> "ny") @@ ("niao" :> "ny")) @@
     (("nie" :> "ny") @@ ("nian" :> "ny") @@ ("ni" :> "ny") @@ ("nin" :> "ny")) @@
     (("ning" :> "ny") @@ ("niu" :> "ny") @@ ("miao" :> "my") @@ ("mie" :> "my")) @@
     (("mian" :> "my") @@ ("mi" :> "my") @@ ("min" :> "my") @@ ("ming" :> "my")) @@
     (("miu" :> "my") @@ ("yu" :> "v") @@ ("yue" :> "v") @@ ("yuan" :> "v")) @@
     (("yun" :> "v") @@ ("xue" :> "xw") @@ ("xuan" :> "xw") @@ ("xu" :> "xw")) @@
     (("xun" :> "xw")))

\* ------------------------------------------------------- phone classifier

tone_marks == {"!", "@", "#", "$", "%", "^", "/", "|", "-"}

_strip_tone(phone) == RemoveChars(phone, tone_marks)

IsChinese(lang) == lang \in {"chinese", "zh", "mandarin"}
IsJapanese(lang) == lang \in {"japanese", "ja", "jp"}

is_consonant(phone, lang) ==
    LET base_phone == _strip_tone(phone)
    IN  IF IsChinese(lang) THEN base_phone \in CHINESE_CONSONANTS
        ELSE IF IsJapanese(lang) THEN base_phone \in JAPANESE_CONSONANTS
        ELSE FALSE

vowel_starts == {"a", "o", "e", "i", "u", "y", "E", "F", "O", "K", "I", "L", "U", "&"}

is_vowel(phone, lang) ==
    LET base_phone == _strip_tone(phone)
    IN  IF IsChinese(lang)
        THEN \/ base_phone \in CHINESE_VOWELS
             \/ \E v \in vowel_starts : StartsWith(base_phone, v)
             \/ Contains(base_phone, "z~")
             \/ Contains(base_phone, "Z~")
             \/ Contains(base_phone, "R")
        ELSE IF IsJapanese(lang)
        THEN \/ base_phone \in JAPANESE_VOWELS
             \/ RStrip(base_phone, {":"}) \in {"a", "i", "M", "u", "e", "o"}
        ELSE FALSE

\* ----------------------------------------------------------- alias resolver

\* c.isascii() and (c.isalnum() or c == '_'), on the characters of this model:
\* the upper-case letters and the punctuation stand for non-ASCII code points
ascii_alnum ==
    {"a", "b", "c", "d", "e", "f", "g", "h", "i", "j", "k", "l", "m", "n", "o", "p",
     "q", "r", "s", "t", "u", "v", "w", "x", "y", "z", "_"}

RECURSIVE KeepChars(_, _)
KeepChars(s, keep) ==
    IF s = "" THEN ""
    ELSE LET h == SubSeq(s, 1, 1)
             t == KeepChars(SubSeq(s, 2, Len(s)), keep)
         IN  IF h \in keep THEN h \o t ELSE t

Get(table, k, default) == IF k \in DOMAIN table THEN table[k] ELSE default

\* s[1:]
From1(s) == SubSeq(s, 2, Len(s))

_ipa_to_pinyin(consonant, vowel) ==
    LET syllable_key == <<consonant, vowel>>
        c_known == consonant \in DOMAIN CHINESE_CONSONANT_TO_PINYIN
        c_pinyin == IF consonant # "" /\ consonant # "Q"
                    THEN Get(CHINESE_CONSONANT_TO_PINYIN, consonant, "")
                    ELSE ""
        v_pinyin == IF vowel # "" THEN Get(CHINESE_VOWEL_TO_PINYIN, vowel, "") ELSE ""
    IN  IF syllable_key \in DOMAIN IPA_SYLLABLE_TO_PINYIN
        THEN IPA_SYLLABLE_TO_PINYIN[syllable_key]
        ELSE IF consonant # "" /\ consonant # "Q" /\ ~c_known THEN None
        ELSE IF vowel # "" /\ vowel \notin DOMAIN CHINESE_VOWEL_TO_PINYIN THEN None
        ELSE IF v_pinyin = "" THEN None
        ELSE IF c_pinyin = ""
        THEN IF v_pinyin = "i" THEN "yi"
             ELSE IF v_pinyin \in {"in", "ing"} THEN "y" \o v_pinyin
             ELSE IF StartsWith(v_pinyin, "i") /\ Len(v_pinyin) > 1
             THEN "y" \o From1(v_pinyin)
             ELSE IF v_pinyin = "u" THEN "wu"
             ELSE IF v_pinyin = "un" THEN "wen"
             ELSE IF v_pinyin = "ong" THEN "weng"
             ELSE IF StartsWith(v_pinyin, "u") /\ Len(v_pinyin) > 1
             THEN "w" \o From1(v_pinyin)
             ELSE IF v_pinyin = "v" THEN "yu"
             ELSE IF StartsWith(v_pinyin, "v") /\ Len(v_pinyin) > 1
             THEN "yu" \o From1(v_pinyin)
             ELSE v_pinyin
        ELSE IF c_pinyin \in {"j", "q", "x"}
        THEN IF v_pinyin = "v" THEN c_pinyin \o "u"
             ELSE IF StartsWith(v_pinyin, "v") THEN c_pinyin \o "u" \o From1(v_pinyin)
             ELSE c_pinyin \o v_pinyin
        ELSE IF c_pinyin \in {"n", "l"} THEN c_pinyin \o v_pinyin
        ELSE IF v_pinyin = "v" THEN c_pinyin \o "u"
        ELSE IF StartsWith(v_pinyin, "v") THEN c_pinyin \o "u" \o From1(v_pinyin)
        ELSE c_pinyin \o v_pinyin

ipa_to_alias(consonant, vowel, lang, use_hiragana) ==
    LET c_base == IF Truthy(consonant) THEN _strip_tone(consonant) ELSE ""
        v_base == IF Truthy(vowel) THEN _strip_tone(vowel) ELSE ""
        c_alias == Get(JAPANESE_IPA_TO_ROMAJI, c_base, c_base)
        v_alias == Get(JAPANESE_IPA_TO_ROMAJI, v_base, v_base)
        \* the kept characters are lower-case already: lower() changes none
        romaji == KeepChars(c_alias \o v_alias, ascii_alnum)
    IN  IF IsChinese(lang) THEN _ipa_to_pinyin(c_base, v_base)
        ELSE IF romaji = "" THEN None
        ELSE IF use_hiragana THEN Get(ROMAJI_TO_HIRAGANA, romaji, romaji)
        ELSE romaji

\* the final of _syllable_to_pinyin, from medial m, vowel spelling v_py and coda cd
SyllableFinal(m, v_py, cd) ==
    IF m = "j"
    THEN IF cd = "n"
         THEN IF v_py = "a" THEN "ian" ELSE IF v_py = "e" THEN "in"
              ELSE "i" \o v_py \o "n"
         ELSE IF cd = "N"
         THEN IF v_py = "a" THEN "iang" ELSE IF v_py = "o" THEN "iong"
              ELSE "i" \o v_py \o "ng"
         ELSE IF cd # "" THEN "i" \o v_py \o cd
         ELSE IF v_py = "a" THEN "ia" ELSE IF v_py = "e" THEN "ie"
              ELSE IF v_py = "ao" THEN "iao" ELSE IF v_py = "ou" THEN "iu"
              ELSE "i" \o v_py
    ELSE IF m = "w"
    THEN IF cd = "n"
         THEN IF v_py = "a" THEN "uan" ELSE IF v_py = "e" THEN "un"
              ELSE "u" \o v_py \o "n"
         ELSE IF cd = "N"
         THEN IF v_py = "a" THEN "uang" ELSE IF v_py = "e" THEN "ueng"
              ELSE "u" \o v_py \o "ng"
         ELSE IF cd # "" THEN "u" \o v_py \o cd
         ELSE IF v_py = "a" THEN "ua" ELSE IF v_py = "o" THEN "uo"
              ELSE IF v_py = "ei" THEN "ui" ELSE IF v_py = "ai" THEN "uai"
              ELSE "u" \o v_py
    ELSE IF m = "Y"
    THEN IF cd = "n"
         THEN IF v_py = "a" THEN "van" ELSE IF v_py = "e" THEN "vn"
              ELSE "v" \o v_py \o "n"
         ELSE IF cd # "" THEN "v" \o v_py \o cd
         ELSE IF v_py = "e" THEN "ve" ELSE "v" \o v_py
    ELSE IF cd = "n" THEN v_py \o "n"
         ELSE IF cd = "N" THEN v_py \o "ng"
         ELSE IF cd # "" THEN v_py \o cd
         ELSE v_py

\* the parse of _syllable_to_pinyin: (consonant) (medial) vowel (coda)
SyllableParse(phones, lang) ==
    LET phones_base == [k \in 1..Len(phones) |-> _strip_tone(phones[k])]
        n == Len(phones_base)
        hasC == n >= 1 /\ is_consonant(phones_base[1], lang)
        idx1 == IF hasC THEN 1 ELSE 0
        hasM == idx1 < n /\ phones_base[idx1 + 1] \in CHINESE_MEDIALS
        idx2 == IF hasM THEN idx1 + 1 ELSE idx1
        hasV == idx2 < n /\ is_vowel(phones_base[idx2 + 1], lang)
        idx3 == idx2 + 1
        hasCd == hasV /\ idx3 < n /\ phones_base[idx3 + 1] \in CHINESE_CODAS
    IN  [c |-> IF hasC THEN phones_base[1] ELSE "",
         m |-> IF hasM THEN phones_base[idx1 + 1] ELSE "",
         v |-> IF hasV THEN phones_base[idx2 + 1] ELSE "",
         cd |-> IF hasCd THEN phones_base[idx3 + 1] ELSE "",
         ok |-> hasV]

\* a spelling that inserts no glide
SyllableSpellBare(c_py, final) == c_py \o final

\* the spelling of _syllable_to_pinyin, from the onset letters c_py and the final
SyllableSpell(c_py, final) ==
    IF c_py = ""
    THEN IF StartsWith(final, "i")
         THEN IF final = "i" THEN "yi"
              ELSE IF final \in {"in", "ing"} THEN "y" \o final
              ELSE "y" \o From1(final)
         ELSE IF StartsWith(final, "u")
         THEN IF final = "u" THEN "wu"
              ELSE IF final = "un" THEN "wen"
              ELSE IF final \in {"ueng", "ong"} THEN "weng"
              ELSE "w" \o From1(final)
         ELSE IF StartsWith(final, "v")
         THEN IF final = "v" THEN "yu" ELSE "yu" \o From1(final)
         ELSE final
    ELSE IF c_py \in {"j", "q", "x"}
    THEN IF StartsWith(final, "v") THEN c_py \o "u" \o From1(final)
         ELSE c_py \o final
    ELSE IF c_py \in {"n", "l"} THEN c_py \o final
    ELSE IF StartsWith(final, "v") THEN c_py \o "u" \o From1(final)
    ELSE c_py \o final

\* _syllable_to_pinyin after the parse p: the two table lookups, the final, the
\* spelling
SyllableAlias(p) ==
    IF ~p.ok THEN None
    ELSE CHOOSE r \in
             {SyllableSpell(c_py, final) :
                 c_py \in {Get(CHINESE_CONSONANT_TO_PINYIN, p.c, "")},
                 final \in {SyllableFinal(p.m, Get(CHINESE_VOWEL_TO_PINYIN, p.v, p.v),
                                          p.cd)}} : TRUE

_syllable_to_pinyin(phones, lang, use_hiragana) ==
    IF phones = <<>> THEN None
    ELSE CHOOSE r \in {SyllableAlias(p) : p \in {SyllableParse(phones, lang)}} : TRUE

\* ------------------------------------------------------ envelope calculator

TicksPerMs == 1000 * 1000
\* one decimal place of a millisecond, in ticks
Decimal1 == 100 * 1000

Min(a, b) == IF a <= b THEN a ELSE b
Max(a, b) == IF a >= b THEN a ELSE b

\* x * (pct / 100); x is a multiple of 100 ticks, so the product is exact
Ratio(x, pct) == (x \div 100) * pct

\* round(x, 1) on a value in ms: the nearest multiple of 0.1 ms, a tie going to
\* the even multiple
Round1(x) ==
    LET q == x \div Decimal1
        r == x % Decimal1
    IN  IF 2 * r < Decimal1 THEN q * Decimal1
        ELSE IF 2 * r > Decimal1 THEN (q + 1) * Decimal1
        ELSE IF q % 2 = 0 THEN q * Decimal1
        ELSE (q + 1) * Decimal1

\* a calculator that takes the overlap from the whole unit
_calculate_oto_params_unit_overlap(wav_name, alias, offset, consonant_duration, segment_end, wav_duration_ms, overlap_ratio) ==
    LET segment_duration == segment_end - offset
        preutterance == consonant_duration
        overlap == Ratio(segment_duration, overlap_ratio)
        cutoff == -segment_duration
    IN  [wav_name |-> wav_name,
         alias |-> alias,
         offset |-> Round1(offset),
         consonant |-> Round1(consonant_duration),
         cutoff |-> Round1(cutoff),
         preutterance |-> Round1(preutterance),
         overlap |-> Round1(overlap),
         segment_duration |-> segment_duration,
         is_vc |-> FALSE,
         is_combined |-> FALSE]

_calculate_oto_params(wav_name, alias, offset, consonant_duration, segment_end, wav_duration_ms, overlap_ratio) ==
    LET segment_duration == segment_end - offset
        preutterance == consonant_duration
        overlap == Ratio(preutterance, overlap_ratio)
        cutoff == -segment_duration
    IN  [wav_name |-> wav_name,
         alias |-> alias,
         offset |-> Round1(offset),
         consonant |-> Round1(consonant_duration),
         cutoff |-> Round1(cutoff),
         preutterance |-> Round1(preutterance),
         overlap |-> Round1(overlap),
         segment_duration |-> segment_duration,
         is_vc |-> FALSE,
         is_combined |-> FALSE]

_calculate_vc_params(wav_name, alias, vowel_start_ms, vowel_end_ms, consonant_end_ms, wav_duration_ms, vc_offset_ratio, vc_overlap_ratio) ==
    LET vowel_duration == vowel_end_ms - vowel_start_ms
        offset == vowel_end_ms - Ratio(vowel_duration, vc_offset_ratio)
        segment_duration == consonant_end_ms - offset
        preutterance == vowel_end_ms - offset
        consonant == Min(30 * TicksPerMs, Ratio(segment_duration, 30))
        overlap == Ratio(preutterance, vc_overlap_ratio)
        cutoff == -segment_duration
    IN  [wav_name |-> wav_name,
         alias |-> alias,
         offset |-> Round1(offset),
         consonant |-> Round1(consonant),
         cutoff |-> Round1(cutoff),
         preutterance |-> Round1(preutterance),
         overlap |-> Round1(overlap),
         segment_duration |-> segment_duration,
         is_vc |-> TRUE,
         is_combined |-> FALSE]

\* ------------------------------------------------------- word-boundary index

\* the (minTime, maxTime) of every word interval whose text is no skip mark
word_ranges(tier) ==
    LET keep(iv) == Strip(iv.mark) # "" /\ Strip(iv.mark) \notin SKIP_MARKS
        kept == SelectSeq(tier, keep)
    IN  [k \in 1..Len(kept) |-> <<kept[k].minTime, kept[k].maxTime>>]

NoRange == <<>>

\* a lookup whose membership test includes a span's end
get_word_range_closed(ranges, time) ==
    LET hits == {k \in 1..Len(ranges) : ranges[k][1] <= time /\ time <= ranges[k][2]}
    IN  IF hits = {} THEN NoRange
        ELSE ranges[CHOOSE k \in hits : \A h \in hits : k <= h]

get_word_range(ranges, time) ==
    LET hits == {k \in 1..Len(ranges) : ranges[k][1] <= time /\ time < ranges[k][2]}
    IN  IF hits = {} THEN NoRange
        ELSE ranges[CHOOSE k \in hits : \A h \in hits : k <= h]

\* a comparison that looks up time1 only and tests time2 against its span
same_word_anchored(ranges, time1, time2) ==
    IF ranges = <<>> THEN TRUE
    ELSE LET range1 == get_word_range(ranges, time1)
         IN  range1 # NoRange /\ range1[1] <= time2 /\ time2 <= range1[2]

same_word(ranges, time1, time2) ==
    IF ranges = <<>> THEN TRUE
    ELSE LET range1 == get_word_range(ranges, time1)
             range2 == get_word_range(ranges, time2)
         IN  range1 # NoRange /\ range1 = range2

\* --------------------------------------------------------- syllable segmenter

Mark(ivs, k) == Strip(ivs[k + 1].mark)
IsSkip(ivs, k) == Mark(ivs, k) \in SKIP_MARKS

\* An entry of the simple-unit segmenter.  phones is syllable_phones; members
\* (the 0-based indices of the intervals the unit was built from) and language
\* are kept for the properties only.
CvEntry(e, phones, members, lang) ==
    e @@ [phones |-> phones, members |-> members, language |-> lang]

\* a coda test without the same-word condition
CodaAbsorbedAcrossWords(ivs, ranges, first, k) ==
    /\ k < Len(ivs)
    /\ ~IsSkip(ivs, k)
    /\ _strip_tone(Mark(ivs, k)) \in {"n", "N", "i", "u"}

\* the coda test of the structured branch: the phone after the vowel is absorbed
CodaAbsorbed(ivs, ranges, first, k) ==
    /\ k < Len(ivs)
    /\ ~IsSkip(ivs, k)
    /\ same_word(ranges, ivs[first + 1].minTime, ivs[k + 1].minTime)
    /\ _strip_tone(Mark(ivs, k)) \in CHINESE_CODAS

\* the test that lets the structured branch move on to the phone at k
NextPhoneUsable(ivs, ranges, first, k) ==
    /\ k < Len(ivs)
    /\ ~IsSkip(ivs, k)
    /\ same_word(ranges, ivs[first + 1].minTime, ivs[k + 1].minTime)

\* The structured (Chinese) branch of _extract_cv_pairs keeps, while it parses
\* one syllable: the cursor i, the phone under it, end_ms, consonant_duration,
\* syllable_phones (phones), and whether it has left the iteration (continue, or
\* the final else).  members (the 0-based indices of the intervals absorbed) is
\* kept for the properties only.
CvSkipped(k) ==
    [stop |-> TRUE, i |-> k, phone |-> "", end_ms |-> 0, consonant_duration |-> 0,
     phones |-> <<>>, members |-> <<>>]

\* 1. the initial
CvInitial(ivs, ranges, lang, i0) ==
    IF ~is_consonant(Mark(ivs, i0), lang)
    THEN [stop |-> FALSE, i |-> i0, phone |-> Mark(ivs, i0),
          end_ms |-> ivs[i0 + 1].maxTime, consonant_duration |-> 0,
          phones |-> <<>>, members |-> <<>>]
    ELSE IF ~NextPhoneUsable(ivs, ranges, i0, i0 + 1) THEN CvSkipped(i0 + 1)
    ELSE [stop |-> FALSE, i |-> i0 + 1, phone |-> Mark(ivs, i0 + 1),
          end_ms |-> ivs[i0 + 2].maxTime,
          consonant_duration |-> ivs[i0 + 1].maxTime - ivs[i0 + 1].minTime,
          phones |-> <<Mark(ivs, i0)>>, members |-> <<i0>>]

\* 2. the medial
CvMedial(ivs, ranges, i0, s) ==
    IF s.stop \/ _strip_tone(s.phone) \notin CHINESE_MEDIALS THEN s
    ELSE IF ~NextPhoneUsable(ivs, ranges, i0, s.i + 1) THEN CvSkipped(s.i + 1)
    ELSE [s EXCEPT !.i = s.i + 1, !.phone = Mark(ivs, s.i + 1),
                   !.end_ms = ivs[s.i + 2].maxTime,
                   !.phones = Append(s.phones, s.phone),
                   !.members = Append(s.members, s.i)]

\* 3. the vowel
CvVowel(ivs, lang, i0, s) ==
    IF s.stop THEN s
    ELSE IF ~is_vowel(s.phone, lang) THEN CvSkipped(s.i + 1)
    ELSE [s EXCEPT !.i = s.i + 1,
                   !.consonant_duration =
                       IF s.consonant_duration = 0
                       THEN Min(30 * TicksPerMs, Ratio(s.end_ms - ivs[i0 + 1].minTime, 20))
                       ELSE s.consonant_duration,
                   !.phones = Append(s.phones, s.phone),
                   !.members = Append(s.members, s.i)]

\* 4. the coda
CvCoda(ivs, ranges, i0, s) ==
    IF s.stop \/ ~CodaAbsorbed(ivs, ranges, i0, s.i) THEN s
    ELSE [s EXCEPT !.i = s.i + 1, !.end_ms = ivs[s.i + 1].maxTime,
                   !.phones = Append(s.phones, Mark(ivs, s.i)),
                   !.members = Append(s.members, s.i)]

\* 5. the alias and the entry
CvEmit(ivs, lang, use_hiragana, i0, s, wav_name, wav_duration_ms, overlap_ratio) ==
    IF s.stop THEN [i |-> s.i, out |-> <<>>]
    ELSE CHOOSE r \in
             {[i |-> s.i,
               out |-> IF Truthy(alias)
                       THEN <<CvEntry(_calculate_oto_params(
                                          wav_name, alias, ivs[i0 + 1].minTime,
                                          s.consonant_duration, s.end_ms,
                                          wav_duration_ms, overlap_ratio),
                                      s.phones, s.members, lang)>>
                       ELSE <<>>] :
                 alias \in {_syllable_to_pinyin(s.phones, lang, use_hiragana)}} : TRUE

\* One iteration of the while loop of _extract_cv_pairs, structured (Chinese)
\* branch, started at a non-skip phone i0: the new cursor and the entries added.
\* Each step works on the value the step before it left.
CvChineseIteration(ivs, ranges, lang, use_hiragana, i0, wav_name, wav_duration_ms, overlap_ratio) ==
    CHOOSE r \in
        {CvEmit(ivs, lang, use_hiragana, i0, s4, wav_name, wav_duration_ms, overlap_ratio) :
            s4 \in {CvCoda(ivs, ranges, i0, s3) :
            s3 \in {CvVowel(ivs, lang, i0, s2) :
            s2 \in {CvMedial(ivs, ranges, i0, s1) :
            s1 \in {CvInitial(ivs, ranges, lang, i0)}}}}} : TRUE

\* a pairing test that takes any phone of the same word
VowelPairedAnyPhone(ivs, ranges, lang, i0) ==
    /\ i0 + 1 < Len(ivs)
    /\ ~IsSkip(ivs, i0 + 1)
    /\ same_word(ranges, ivs[i0 + 1].minTime, ivs[i0 + 2].minTime)

\* the pairing test of the unstructured branch: the phone after consonant i0
VowelPaired(ivs, ranges, lang, i0) ==
    /\ i0 + 1 < Len(ivs)
    /\ ~IsSkip(ivs, i0 + 1)
    /\ is_vowel(Mark(ivs, i0 + 1), lang)
    /\ same_word(ranges, ivs[i0 + 1].minTime, ivs[i0 + 2].minTime)

\* One iteration of the while loop of _extract_cv_pairs, unstructured branch.
CvJapaneseIteration(ivs, ranges, lang, use_hiragana, i0, wav_name, wav_duration_ms, overlap_ratio) ==
    LET interval == ivs[i0 + 1]
        phone == Mark(ivs, i0)
        start_ms == interval.minTime
        end_ms == interval.maxTime
        paired == VowelPaired(ivs, ranges, lang, i0)
        vowel == IF paired THEN Mark(ivs, i0 + 1) ELSE None
        vowel_end == IF paired THEN ivs[i0 + 2].maxTime ELSE end_ms
        c_alias == ipa_to_alias(phone, vowel, lang, use_hiragana)
        c_entry == _calculate_oto_params(wav_name, c_alias, start_ms, end_ms - start_ms,
                                         vowel_end, wav_duration_ms, overlap_ratio)
        v_alias == ipa_to_alias(None, phone, lang, use_hiragana)
        v_entry == _calculate_oto_params(wav_name, v_alias, start_ms,
                                         Min(30 * TicksPerMs, Ratio(end_ms - start_ms, 20)),
                                         end_ms, wav_duration_ms, overlap_ratio)
    IN  IF is_consonant(phone, lang)
        THEN [i |-> (IF paired THEN i0 + 1 ELSE i0) + 1,
              out |-> IF Truthy(c_alias)
                      THEN <<CvEntry(c_entry,
                                     IF paired THEN <<phone, vowel>> ELSE <<phone>>,
                                     IF paired THEN <<i0, i0 + 1>> ELSE <<i0>>, lang)>>
                      ELSE <<>>]
        ELSE IF is_vowel(phone, lang)
        THEN [i |-> i0 + 1,
              out |-> IF Truthy(v_alias)
                      THEN <<CvEntry(v_entry, <<phone>>, <<i0>>, lang)>>
                      ELSE <<>>]
        ELSE [i |-> i0 + 1, out |-> <<>>]

\* One iteration of the while loop of _extract_cv_pairs.
CvIteration(ivs, ranges, lang, use_hiragana, i0, wav_name, wav_duration_ms, overlap_ratio) ==
    IF IsSkip(ivs, i0) THEN [i |-> i0 + 1, out |-> <<>>]
    ELSE IF IsChinese(lang)
    THEN CvChineseIteration(ivs, ranges, lang, use_hiragana, i0, wav_name,
                            wav_duration_ms, overlap_ratio)
    ELSE CvJapaneseIteration(ivs, ranges, lang, use_hiragana, i0, wav_name,
                             wav_duration_ms, overlap_ratio)

\* the test that lets the syllable parse of _extract_vc_pairs move on to phone k
VcNextPhoneUsable(ivs, k) == k < Len(ivs) /\ ~IsSkip(ivs, k)

\* _extract_vc_pairs keeps, while it parses one syllable: the cursor i, the phone
\* under it, has_consonant, vowel_start, vowel_end, syllable_end and
\* syllable_phones (phones).  members is kept for the properties only.
VcSkipped(k) ==
    [stop |-> TRUE, i |-> k, phone |-> "", has_consonant |-> FALSE, vowel_start |-> 0,
     vowel_end |-> 0, syllable_end |-> 0, phones |-> <<>>, members |-> <<>>]

\* 1. the initial
VcInitial(ivs, lang, i0) ==
    IF ~is_consonant(Mark(ivs, i0), lang)
    THEN [stop |-> FALSE, i |-> i0, phone |-> Mark(ivs, i0), has_consonant |-> FALSE,
          vowel_start |-> ivs[i0 + 1].minTime, vowel_end |-> ivs[i0 + 1].maxTime,
          syllable_end |-> ivs[i0 + 1].maxTime, phones |-> <<>>, members |-> <<>>]
    ELSE IF ~VcNextPhoneUsable(ivs, i0 + 1) THEN VcSkipped(i0 + 1)
    ELSE [stop |-> FALSE, i |-> i0 + 1, phone |-> Mark(ivs, i0 + 1),
          has_consonant |-> TRUE,
          vowel_start |-> ivs[i0 + 2].minTime, vowel_end |-> ivs[i0 + 1].maxTime,
          syllable_end |-> ivs[i0 + 2].maxTime,
          phones |-> <<Mark(ivs, i0)>>, members |-> <<i0>>]

\* 2. the medial
VcMedial(ivs, s) ==
    IF s.stop \/ _strip_tone(s.phone) \notin CHINESE_MEDIALS THEN s
    ELSE IF ~VcNextPhoneUsable(ivs, s.i + 1) THEN VcSkipped(s.i + 1)
    ELSE [s EXCEPT !.i = s.i + 1, !.phone = Mark(ivs, s.i + 1),
                   !.syllable_end = ivs[s.i + 2].maxTime,
                   !.phones = Append(s.phones, s.phone),
                   !.members = Append(s.members, s.i)]

\* 3. the vowel: vowel_end is read from interval, the syllable's first phone
VcVowel(ivs, lang, i0, s) ==
    IF s.stop THEN s
    ELSE IF ~is_vowel(s.phone, lang) THEN VcSkipped(s.i + 1)
    ELSE [s EXCEPT !.i = s.i + 1,
                   !.vowel_end = ivs[i0 + 1].maxTime,
                   !.syllable_end = ivs[i0 + 1].maxTime,
                   !.phones = Append(s.phones, s.phone),
                   !.members = Append(s.members, s.i)]

\* a coda step that takes the phone and leaves the cursor on it
VcCodaCursorKept(ivs, s) ==
    IF \/ s.stop
       \/ ~VcNextPhoneUsable(ivs, s.i)
       \/ _strip_tone(Mark(ivs, s.i)) \notin CHINESE_CODAS
    THEN s
    ELSE [s EXCEPT !.syllable_end = ivs[s.i + 1].maxTime,
                   !.vowel_end = ivs[s.i + 1].maxTime,
                   !.phones = Append(s.phones, Mark(ivs, s.i)),
                   !.members = Append(s.members, s.i)]

\* 4. the coda
VcCoda(ivs, s) ==
    IF \/ s.stop
       \/ ~VcNextPhoneUsable(ivs, s.i)
       \/ _strip_tone(Mark(ivs, s.i)) \notin CHINESE_CODAS
    THEN s
    ELSE [s EXCEPT !.i = s.i + 1,
                   !.syllable_end = ivs[s.i + 1].maxTime,
                   !.vowel_end = ivs[s.i + 1].maxTime,
                   !.phones = Append(s.phones, Mark(ivs, s.i)),
                   !.members = Append(s.members, s.i)]

\* 5. the alias and the presamp lookups
VcEmit(lang, s) ==
    IF s.stop THEN [i |-> s.i, out |-> <<>>]
    ELSE CHOOSE r \in
             {[i |-> s.i,
               out |-> IF Truthy(pinyin) /\ Truthy(Get(vowel_map, pinyin, None))
                       THEN <<[pinyin |-> pinyin,
                               vowel_part |-> Get(vowel_map, pinyin, None),
                               consonant_part |->
                                   IF s.has_consonant
                                   THEN Get(consonant_map, pinyin, None) ELSE None,
                               vowel_start |-> s.vowel_start, vowel_end |-> s.vowel_end,
                               syllable_end |-> s.syllable_end,
                               phones |-> s.phones, members |-> s.members]>>
                       ELSE <<>>] :
                 pinyin \in {_syllable_to_pinyin(s.phones, lang, FALSE)}} : TRUE

\* One iteration of the while loop of _extract_vc_pairs, started at a non-skip
\* phone i0: the new cursor and the syllables added.
VcSyllableIteration(ivs, lang, i0) ==
    CHOOSE r \in
        {VcEmit(lang, s4) :
            s4 \in {VcCoda(ivs, s3) :
            s3 \in {VcVowel(ivs, lang, i0, s2) :
            s2 \in {VcMedial(ivs, s1) :
            s1 \in {VcInitial(ivs, lang, i0)}}}}} : TRUE

VcIteration(ivs, lang, i0) ==
    IF IsSkip(ivs, i0) THEN [i |-> i0 + 1, out |-> <<>>]
    ELSE VcSyllableIteration(ivs, lang, i0)

\* An entry of the transition-unit generator.  pair (the positions in syllables
\* of the two syllables it joins) is kept for the properties only.
VcEntry(e, idx) ==
    e @@ [phones |-> <<>>, members |-> <<idx, idx + 1>>, language |-> "chinese"]

\* the for loop of _extract_vc_pairs over adjacent syllables, from position idx
RECURSIVE VcPairs(_, _, _, _, _, _, _)
VcPairs(syls, idx, wav_name, wav_duration_ms, vc_offset_ratio, vc_overlap_ratio, vc_separator) ==
    IF idx + 1 > Len(syls) - 1 THEN <<>>
    ELSE LET current == syls[idx + 1]
             next_syl == syls[idx + 2]
             next_consonant == next_syl.consonant_part
             vc_alias == current.vowel_part \o vc_separator \o next_consonant
             entry == _calculate_vc_params(wav_name, vc_alias, current.vowel_start,
                                           current.vowel_end, next_syl.syllable_end,
                                           wav_duration_ms, vc_offset_ratio,
                                           vc_overlap_ratio)
             rest == VcPairs(syls, idx + 1, wav_name, wav_duration_ms, vc_offset_ratio,
                             vc_overlap_ratio, vc_separator)
         IN  IF ~Truthy(next_consonant) THEN rest
             ELSE <<VcEntry(entry, idx)>> \o rest

\* ------------------------------------------------- the parse of one transcript

\* the longest phone tier explored
MaxPhones == 4

\* the phone marks explored: a phone that is initial and coda, a medial, a toned
\* vowel, a phone that is vowel and coda, a skip mark
PhoneMarks == {"n", "w", "a!", "i", "SP"}

\* the timings explored, <<length of every phone, silence the aligner left
\* between two intervals>>: a phone of 200 ms is long enough for the 30 ms cap
\* of a zero-length onset to apply
Timings ==
    {<<100 * TicksPerMs, 0>>, <<100 * TicksPerMs, 20 * TicksPerMs>>,
     <<200 * TicksPerMs, 0>>}

\* the defaults of get_options, in percent
overlap_ratio_default == 30
vc_offset_ratio_default == 50
vc_overlap_ratio_default == 50
vc_alias_separator_default == " "
alias_style_default == "hiragana"

RECURSIVE SeqsOf(_, _)
SeqsOf(S, n) ==
    IF n = 0 THEN {<<>>}
    ELSE {Append(q, x) : q \in SeqsOf(S, n - 1), x \in S}

\* a time-ordered tier: interval k starts where interval k-1 ended, plus gap
PhoneTier(marks, length, gap) ==
    [k \in 1..Len(marks) |->
        [mark |-> marks[k],
         minTime |-> (k - 1) * (length + gap),
         maxTime |-> (k - 1) * (length + gap) + length]]

\* the word tiers explored for a phone tier: none, one word over all phones, or
\* two spans meeting at the start of a phone, the second a word or unlabelled
WordTiers(ivs) ==
    LET last == ivs[Len(ivs)].maxTime
    IN  {<<>>, <<[mark |-> "w1", minTime |-> 0, maxTime |-> last]>>}
        \cup {<<[mark |-> "w1", minTime |-> 0, maxTime |-> ivs[b].minTime],
                [mark |-> m, minTime |-> ivs[b].minTime, maxTime |-> last]>> :
              b \in 2..Len(ivs), m \in {"w2", ""}}

use_hiragana == alias_style_default = "hiragana" /\ IsJapanese(language)
wav_name == "a.wav"
wav_duration_ms == intervals[Len(intervals)].maxTime

Idle == call = None /\ ret = Pending

\* the export directory before a run: not there, no file written into it
NoDisk == [export_dir |-> FALSE, written |-> {}]
\* the locals of export before the selection
NoWork == [filtered_entries |-> <<>>, used_wavs |-> {}, candidates |-> <<>>,
           new_entries |-> <<>>, new_wavs |-> {}]

Init ==
    /\ pc = "cv"
    /\ language \in {"chinese", "japanese"}
    /\ cvvc_mode \in BOOLEAN
    /\ \E n \in 1..MaxPhones : \E marks \in SeqsOf(PhoneMarks, n) : \E t \in Timings :
          intervals = PhoneTier(marks, t[1], t[2])
    /\ words_tier \in WordTiers(intervals)
    /\ i = 0
    /\ entries = <<>>
    /\ syllables = <<>>
    /\ disk = NoDisk /\ work = NoWork
    /\ Idle

\* one iteration of the while loop of _extract_cv_pairs
CvStep ==
    /\ pc = "cv"
    /\ i < Len(intervals)
    /\ \E r \in {CvIteration(intervals, word_ranges(words_tier), language, use_hiragana,
                             i, wav_name, wav_duration_ms, overlap_ratio_default)} :
          /\ i' = r.i
          /\ entries' = entries \o r.out
    /\ UNCHANGED <<pc, language, cvvc_mode, words_tier, intervals,
                   syllables, call, ret, disk, work>>

\* _extract_cv_pairs returns; _parse_textgrids goes on to _extract_vc_pairs when
\* cvvc_mode is set, which returns at once for a language that is not Chinese
CvReturn ==
    /\ pc = "cv"
    /\ i >= Len(intervals)
    /\ IF cvvc_mode /\ IsChinese(language)
       THEN pc' = "vc" /\ i' = 0
       ELSE pc' = "done" /\ i' = i
    /\ UNCHANGED <<language, cvvc_mode, words_tier, intervals, entries,
                   syllables, call, ret, disk, work>>

\* one iteration of the while loop of _extract_vc_pairs
VcStep ==
    /\ pc = "vc"
    /\ i < Len(intervals)
    /\ \E r \in {VcIteration(intervals, language, i)} :
          /\ i' = r.i
          /\ syllables' = syllables \o r.out
    /\ UNCHANGED <<pc, language, cvvc_mode, words_tier, intervals,
                   entries, call, ret, disk, work>>

\* the for loop over adjacent syllables, and the return of _extract_vc_pairs
VcReturn ==
    /\ pc = "vc"
    /\ i >= Len(intervals)
    /\ entries' = entries \o VcPairs(syllables, 0, wav_name, wav_duration_ms,
                                     vc_offset_ratio_default, vc_overlap_ratio_default,
                                     vc_alias_separator_default)
    /\ pc' = "done"
    /\ UNCHANGED <<language, cvvc_mode, words_tier, intervals, i,
                   syllables, call, ret, disk, work>>

Next == CvStep \/ CvReturn \/ VcStep \/ VcReturn

Spec == Init /\ [][Next]_vars
\* ------------------------------------------------------------------ properties

\* the entries of the simple-unit segmenter for the structured system
ChineseSyllables ==
    {k \in 1..Len(entries) : ~entries[k].is_vc /\ IsChinese(entries[k].language)}

\* ph is (consonant)? (medial)? vowel (coda)?, the coda drawn from codas
SyllableShape(ph, codas) ==
    \E nc \in 0..1 : \E nm \in 0..1 : \E ncd \in 0..1 :
        /\ Len(ph) = nc + nm + 1 + ncd
        /\ nc = 1 => is_consonant(ph[1], "chinese")
        /\ nm = 1 => _strip_tone(ph[nc + 1]) \in {"j", "w", "Y"}
        /\ is_vowel(ph[nc + nm + 1], "chinese")
        /\ ncd = 1 => _strip_tone(ph[Len(ph)]) \in codas

\* C1 (as the code has it): every syllable emitted by the structured-system
\* segmenter is at most one consonant, then at most one medial out of j, w and
\* y-glide, then exactly one vowel, then at most one coda, and the coda is one
\* of the four symbols n, ng, i, u.
C1_SyllableStructure ==
    \A k \in ChineseSyllables : SyllableShape(entries[k].phones, {"n", "N", "i", "u"})

\* a syllable with all four parts has been emitted
C1_Witness ==
    \E k \in ChineseSyllables :
        /\ Len(entries[k].phones) = 4
        /\ SyllableShape(entries[k].phones, {"n", "N", "i", "u"})

\* C1 as stated: the same structure with the coda drawn from two symbols only
C1_AsStated ==
    \A k \in ChineseSyllables : SyllableShape(entries[k].phones, {"n", "N"})

\* t1 and t2 lie in one span of the word tier, under start <= t < end
InOneSpan(t1, t2) ==
    \E w \in 1..Len(words_tier) :
        /\ Strip(words_tier[w].mark) # ""
        /\ Strip(words_tier[w].mark) \notin SKIP_MARKS
        /\ words_tier[w].minTime <= t1 /\ t1 < words_tier[w].maxTime
        /\ words_tier[w].minTime <= t2 /\ t2 < words_tier[w].maxTime

SpansSupplied ==
    \E w \in 1..Len(words_tier) :
        Strip(words_tier[w].mark) # "" /\ Strip(words_tier[w].mark) \notin SKIP_MARKS

\* C2: when word spans are supplied, every phone a simple unit absorbed after
\* its first phone (medial, vowel, coda, or the vowel paired with a consonant in
\* the unstructured system) is no skip mark and starts in the word span in
\* which the unit's first phone starts.
C2_AbsorbedInSameWord ==
    SpansSupplied =>
        \A k \in 1..Len(entries) : ~entries[k].is_vc =>
            \A m \in 2..Len(entries[k].members) :
                LET first == entries[k].members[1]
                    this == entries[k].members[m]
                IN  /\ Strip(intervals[this + 1].mark) \notin SKIP_MARKS
                    /\ InOneSpan(intervals[first + 1].minTime, intervals[this + 1].minTime)

\* a unit of two or more phones was emitted under a two-span word tier, and the
\* phone after it, which could have been its coda, starts in the other span
C2_Witness ==
    /\ Len(words_tier) = 2
    /\ SpansSupplied
    /\ \E k \in ChineseSyllables :
          LET mem == entries[k].members
              after == mem[Len(mem)] + 1
          IN  /\ Len(mem) >= 2
              /\ after < Len(intervals)
              /\ _strip_tone(Strip(intervals[after + 1].mark)) \in {"n", "N", "i", "u"}
              /\ ~InOneSpan(intervals[mem[1] + 1].minTime, intervals[after + 1].minTime)

\* C3 as stated: every entry has cutoff = -segment_duration, preutterance no
\* longer than segment_duration, and a non-negative overlap.
C3_EnvelopeInvariant ==
    \A k \in 1..Len(entries) :
        /\ entries[k].cutoff = -entries[k].segment_duration
        /\ entries[k].preutterance <= entries[k].segment_duration
        /\ entries[k].overlap >= 0
\* ------------------------------------------------- same_word, called directly

\* the pipeline variables while a function is exercised on its own
PipelineIdle ==
    /\ pc = "idle" /\ language = "chinese" /\ cvvc_mode = FALSE
    /\ words_tier = <<>> /\ intervals = <<>> /\ i = 0
    /\ entries = <<>> /\ syllables = <<>>
    /\ disk = NoDisk /\ work = NoWork

pipeline == <<pc, language, cvvc_mode, words_tier, intervals, i, entries, syllables,
              disk, work>>

\* the times explored, and the most word spans in a tier
MaxTime == 4
MaxSpans == 2

\* word_ranges of an interval tier: spans of positive length, in time order,
\* none reaching into the next
RECURSIVE SpanLists(_, _)
SpanLists(from, n) ==
    {<<>>} \cup
    (IF n = 0 THEN {}
     ELSE {<<<<a, b>>>> \o rest :
              a \in from..MaxTime, b \in from..MaxTime, rest \in SpanLists(from, n - 1)})

OrderedSpans(r) ==
    /\ \A k \in 1..Len(r) : r[k][1] < r[k][2]
    /\ \A k \in 1..Len(r) - 1 : r[k][2] <= r[k + 1][1]

InitSameWord ==
    /\ PipelineIdle
    /\ \E r \in SpanLists(0, MaxSpans) : \E t1 \in 0..MaxTime : \E t2 \in 0..MaxTime :
          /\ OrderedSpans(r)
          /\ call = [fn |-> "same_word", ranges |-> r, time1 |-> t1, time2 |-> t2]
    /\ ret = Pending

ApplySameWord ==
    /\ ret = Pending
    /\ ret' = <<same_word(call.ranges, call.time1, call.time2)>>
    /\ UNCHANGED <<pipeline, call>>

NextSameWord == ApplySameWord

SpecSameWord == InitSameWord /\ [][NextSameWord]_vars

\* span contains t under start <= t < end
InSpan(span, t) == span[1] <= t /\ t < span[2]

\* C4: same_word returns true when there are no word spans; otherwise it
\* returns true exactly when one span contains both times under half-open
\* membership start <= t < end, and so false when either time is in no span.
C4_SameWordMeaning ==
    ret # Pending =>
        (ret[1] <=>
            \/ call.ranges = <<>>
            \/ \E k \in 1..Len(call.ranges) :
                  InSpan(call.ranges[k], call.time1) /\ InSpan(call.ranges[k], call.time2))

\* same_word answered false for a time inside a span and the end of that span
C4_Witness ==
    /\ ret = <<FALSE>>
    /\ \E k \in 1..Len(call.ranges) :
          InSpan(call.ranges[k], call.time1) /\ call.time2 = call.ranges[k][2]

\* C5: same_word is symmetric in its two times, and true of a time with itself
\* whenever that time lies inside some span.
C5_SymmetricReflexive ==
    ret # Pending =>
        /\ ret[1] = same_word(call.ranges, call.time2, call.time1)
        /\ (\E k \in 1..Len(call.ranges) : InSpan(call.ranges[k], call.time1))
              => same_word(call.ranges, call.time1, call.time1)

\* same_word answered true for two different times of one span
C5_Witness ==
    /\ ret = <<TRUE>>
    /\ call.time1 # call.time2
    /\ \E k \in 1..Len(call.ranges) :
          InSpan(call.ranges[k], call.time1) /\ InSpan(call.ranges[k], call.time2)
\* ------------------------------------- _calculate_oto_params, called directly

\* unit boundaries are multiples of 12.52 ms, which lie off the 0.1 ms grid of
\* the stored values and never half-way between two grid points
Quantum == 12520 * 1000
\* the most quanta in one part of a unit
MaxQuanta == 3

\* the overlap ratios explored (the option ranges from 0.1 to 0.5), in percent
OverlapRatios == {10, 30, 50}

\* the unit of the worked example: start 100 ms, consonant end 150 ms, end 300 ms
ExampleUnit ==
    [fn |-> "_calculate_oto_params", unitStart |-> 100 * TicksPerMs,
     consonantEnd |-> 150 * TicksPerMs, unitEnd |-> 300 * TicksPerMs, r |-> 30]

InitOtoParams ==
    /\ PipelineIdle
    /\ \/ call = ExampleUnit
       \/ \E a \in 0..MaxQuanta : \E b \in 0..MaxQuanta : \E c \in 0..MaxQuanta :
          \E r \in OverlapRatios :
             call = [fn |-> "_calculate_oto_params", unitStart |-> a * Quantum,
                     consonantEnd |-> (a + b) * Quantum,
                     unitEnd |-> (a + b + c) * Quantum, r |-> r]
    /\ ret = Pending

\* the call of _extract_cv_pairs for a unit that starts with a consonant
ApplyOtoParams ==
    /\ ret = Pending
    /\ ret' = <<_calculate_oto_params("a.wav", "ga", call.unitStart,
                                      call.consonantEnd - call.unitStart, call.unitEnd,
                                      call.unitEnd, call.r)>>
    /\ UNCHANGED <<pipeline, call>>

NextOtoParams == ApplyOtoParams

SpecOtoParams == InitOtoParams /\ [][NextOtoParams]_vars

\* stored is exact rounded to one decimal place of a millisecond
Rounded1(stored, exact) ==
    /\ stored % Decimal1 = 0
    /\ 2 * (stored - exact) <= Decimal1
    /\ 2 * (exact - stored) <= Decimal1

RECURSIVE Replace(_, _, _)
Replace(s, pat, rep) ==
    IF Len(s) < Len(pat) THEN s
    ELSE IF StartsWith(s, pat) THEN rep \o Replace(SubSeq(s, Len(pat) + 1, Len(s)), pat, rep)
    ELSE SubSeq(s, 1, 1) \o Replace(SubSeq(s, 2, Len(s)), pat, rep)

\* the naming template of the base class: %p% is the base alias, %n% the index
apply_naming_rule(rule, alias, idx) ==
    Replace(Replace(rule, "%p%", alias), "%n%", ToString(idx))

\* a place for e that is before every entry of equal score
InsertBeforeEqual(done, e) ==
    LET ahead == {k \in 1..Len(done) : done[k].quality_score > e.quality_score}
        n == Cardinality(ahead)
    IN  SubSeq(done, 1, n) \o <<e>> \o SubSeq(done, n + 1, Len(done))

\* the place sorted() gives e among the entries before it: after every entry
\* whose score is not lower (done is in descending order)
InsertByScore(done, e) ==
    LET ahead == {k \in 1..Len(done) : done[k].quality_score >= e.quality_score}
        n == Cardinality(ahead)
    IN  SubSeq(done, 1, n) \o <<e>> \o SubSeq(done, n + 1, Len(done))

\* sorted(group, key=lambda x: -x["quality_score"])
RECURSIVE sorted_group(_)
sorted_group(group) ==
    IF group = <<>> THEN <<>>
    ELSE InsertByScore(sorted_group(SubSeq(group, 1, Len(group) - 1)), group[Len(group)])

\* the keys of alias_groups, in insertion order
RECURSIVE GroupKeys(_)
GroupKeys(es) ==
    IF es = <<>> THEN <<>>
    ELSE LET before == GroupKeys(SubSeq(es, 1, Len(es) - 1))
             a == es[Len(es)].alias
         IN  IF \E k \in 1..Len(before) : before[k] = a THEN before ELSE Append(before, a)

\* the first max_samples entries of one group after sorting, with the name the
\* template gives each
KeepBest(group, base_alias, max_samples, naming_rule, first_naming_rule) ==
    LET sorted == sorted_group(group)
        kept == SubSeq(sorted, 1, Min(max_samples, Len(sorted)))
        final_alias(idx) ==
            IF idx = 0 /\ first_naming_rule # ""
            THEN apply_naming_rule(first_naming_rule, base_alias, idx)
            ELSE apply_naming_rule(naming_rule, base_alias, idx)
    IN  [k \in 1..Len(kept) |-> [kept[k] EXCEPT !.alias = final_alias(k - 1)]]

RECURSIVE KeepBestOfEach(_, _, _, _, _)
KeepBestOfEach(keys, es, max_samples, naming_rule, first_naming_rule) ==
    IF keys = <<>> THEN <<>>
    ELSE LET InGroup(e) == e.alias = Head(keys)
         IN  KeepBest(SelectSeq(es, InGroup), Head(keys), max_samples, naming_rule,
                      first_naming_rule)
             \o KeepBestOfEach(Tail(keys), es, max_samples, naming_rule, first_naming_rule)

\* the entries carry the quality_score the scorer gave them
_filter_by_alias(es, max_samples, naming_rule, first_naming_rule) ==
    LET Valid(e) == e.alias # "" /\ Strip(e.alias) # ""
        valid_entries == SelectSeq(es, Valid)
        filtered == KeepBestOfEach(GroupKeys(valid_entries), valid_entries, max_samples,
                                   naming_rule, first_naming_rule)
    IN  [filtered |-> filtered,
         used_wavs |-> {filtered[k].wav_name : k \in 1..Len(filtered)}]

\* the export loop of the simple export: the same selection over the files of
\* each name; the files copied, in order, under their new name
_sort_and_export(es, max_samples, naming_rule, first_naming_rule) ==
    LET copied == KeepBestOfEach(GroupKeys(es), es, max_samples, naming_rule,
                                 first_naming_rule)
    IN  [filtered |-> copied, exported |-> Len(copied)]
\* the most raw entries, the highest score and the largest max_samples explored
MaxEntries == 4
MaxScore == 1
MaxSamples == 3

\* the templates get_options offers by default
naming_rule_default == "%p%%n%"
first_naming_rule_default == "%p%"

\* raw entries of two aliases; id is the position in the raw list
ScoredEntries ==
    UNION {{[k \in 1..n |-> [id |-> k, alias |-> a[k], quality_score |-> q[k],
                              wav_name |-> "a.wav"]] :
               a \in [1..n -> {"ga", "a"}], q \in [1..n -> 0..MaxScore]} :
           n \in 0..MaxEntries}

InitFilter ==
    /\ PipelineIdle
    /\ \E f \in {"_filter_by_alias", "_sort_and_export"} : \E es \in ScoredEntries :
       \E m \in 1..MaxSamples :
          call = [fn |-> f, entries |-> es, max_samples |-> m]
    /\ ret = Pending

ApplyFilterByAlias ==
    /\ call.fn = "_filter_by_alias"
    /\ ret = Pending
    /\ ret' = <<_filter_by_alias(call.entries, call.max_samples, naming_rule_default,
                                 first_naming_rule_default)>>
    /\ UNCHANGED <<pipeline, call>>

ApplySortAndExport ==
    /\ call.fn = "_sort_and_export"
    /\ ret = Pending
    /\ ret' = <<_sort_and_export(call.entries, call.max_samples, naming_rule_default,
                                 first_naming_rule_default)>>
    /\ UNCHANGED <<pipeline, call>>

NextFilter == ApplyFilterByAlias \/ ApplySortAndExport

SpecFilter == InitFilter /\ [][NextFilter]_vars

\* the ids of the raw entries of alias a, and the positions in the output of
\* the entries kept from them
GroupOf(a) == {k \in 1..Len(call.entries) : call.entries[k].alias = a}
KeptOf(a) == {k \in 1..Len(ret[1].filtered) : ret[1].filtered[k].id \in GroupOf(a)}

\* C7: for every alias group and every topK >= 1 the selector outputs exactly
\* min(topK, group size) entries of the group, in descending score order, no
\* dropped entry scoring higher than a kept one, and kept entries of equal
\* score in their original relative order.
C7_SelectorKeepsBest ==
    ret # Pending =>
        LET out == ret[1].filtered
        IN  \A a \in {"ga", "a"} :
               /\ Cardinality(KeptOf(a)) = Min(call.max_samples, Cardinality(GroupOf(a)))
               /\ Cardinality({out[k].id : k \in KeptOf(a)}) = Cardinality(KeptOf(a))
               /\ \A j \in KeptOf(a) : \A k \in KeptOf(a) :
                     j < k =>
                        /\ out[j].quality_score >= out[k].quality_score
                        /\ out[j].quality_score = out[k].quality_score
                              => out[j].id < out[k].id
               /\ \A d \in GroupOf(a) : \A k \in KeptOf(a) :
                     (\A j \in KeptOf(a) : out[j].id # d)
                        => call.entries[d].quality_score <= out[k].quality_score

\* a group larger than max_samples was cut, two kept entries tie and a dropped
\* entry scores lower
C7_Witness ==
    /\ ret # Pending
    /\ \E a \in {"ga", "a"} :
          /\ Cardinality(GroupOf(a)) > call.max_samples
          /\ \E j \in KeptOf(a) : \E k \in KeptOf(a) :
                j < k /\ ret[1].filtered[j].quality_score = ret[1].filtered[k].quality_score
          /\ \E d \in GroupOf(a) : \A k \in KeptOf(a) :
                call.entries[d].quality_score < ret[1].filtered[k].quality_score
\* --------------------------------------------------------- fragment synthesizer

\* audio[start : start + duration] of an audio of n samples: its length
SliceLen(n, start, duration) == Max(0, Min(n, start + duration) - Min(n, start))

\* int(ms / 1000 * sr) for a time in ticks and a rate in kHz
Samples(ticks, khz) == (ticks * khz) \div TicksPerMs

\* a concatenation that keeps both fragments whole
_crossfade_concat_plain(len1, len2, crossfade_samples) ==
    [part1 |-> len1, crossfaded |-> 0, part2 |-> len2]

\* the waveform is modelled by the lengths of the three parts concatenated
_crossfade_concat(len1, len2, crossfade_samples) ==
    IF crossfade_samples <= 0
    THEN [part1 |-> len1, crossfaded |-> 0, part2 |-> len2]
    ELSE LET cf == Min(crossfade_samples, Min(len1, len2))
         IN  [part1 |-> len1 - cf, crossfaded |-> cf, part2 |-> len2 - cf]

\* a test that lets fragments of different rates through
CombineRejectedRateBlind(c, v, c_segment, v_segment) ==
    c_segment = 0 \/ v_segment = 0

\* the two returns of (None, None): the rates differ, or a fragment is empty
CombineRejected(c, v, c_segment, v_segment) ==
    \/ c.sr # v.sr
    \/ c_segment = 0 \/ v_segment = 0

\* c and v are the fragment infos (offset_ms and duration_ms in ticks, the
\* file's length in samples and its rate in kHz).  crossfade_samples, len1 and
\* len2 are kept for the properties only.
_combine_and_save(alias, c, v, overlap_ratio, crossfade_ms, first_naming_rule) ==
    LET c_segment == SliceLen(c.audio, Samples(c.offset_ms, c.sr), Samples(c.duration_ms, c.sr))
        v_segment == SliceLen(v.audio, Samples(v.offset_ms, v.sr), Samples(v.duration_ms, v.sr))
        sr == c.sr
        configured == Samples(crossfade_ms * TicksPerMs, sr)
        limited == Min(configured, Min(c_segment \div 2, v_segment \div 2))
        crossfade_samples == IF limited < 1 THEN 1 ELSE limited
        parts == _crossfade_concat(c_segment, v_segment, crossfade_samples)
        combined == parts.part1 + parts.crossfaded + parts.part2
        total_duration_ms == (combined * TicksPerMs) \div sr
        final_alias == IF first_naming_rule # ""
                       THEN apply_naming_rule(first_naming_rule, alias, 0)
                       ELSE alias
        combined_name == "C" \o alias \o ".wav"
    IN  IF CombineRejected(c, v, c_segment, v_segment) THEN <<None, None>>
        ELSE <<
             [wav_name |-> combined_name,
              alias |-> final_alias,
              offset |-> 0,
              consonant |-> Round1(c.duration_ms),
              cutoff |-> Round1(-total_duration_ms),
              preutterance |-> Round1(c.duration_ms),
              overlap |-> Round1(Ratio(c.duration_ms, overlap_ratio)),
              segment_duration |-> total_duration_ms,
              is_vc |-> FALSE,
              is_combined |-> TRUE,
              crossfade_samples |-> crossfade_samples,
              len1 |-> c_segment, len2 |-> v_segment, combined |-> combined],
             combined_name>>

\* the longest fragment explored, in ms
MaxFragment == 12

\* crossfade_ms as get_options bounds it from below, and its default
crossfade_ms_min == 5
crossfade_ms_default == 10

\* the sample rates explored, in kHz
Rates == {1, 2}

InitCombine ==
    /\ PipelineIdle
    /\ \E c_off \in {0, 2} : \E c_dur \in 0..MaxFragment : \E v_dur \in 0..MaxFragment :
       \E c_sr \in Rates : \E v_sr \in Rates :
       \E ms \in {crossfade_ms_min, crossfade_ms_default} :
          call = [fn |-> "_combine_and_save",
                  c |-> [audio |-> MaxFragment * c_sr, sr |-> c_sr,
                         offset_ms |-> c_off * TicksPerMs,
                         duration_ms |-> c_dur * TicksPerMs],
                  v |-> [audio |-> MaxFragment * v_sr, sr |-> v_sr,
                         offset_ms |-> 0, duration_ms |-> v_dur * TicksPerMs],
                  crossfade_ms |-> ms]
    /\ ret = Pending

ApplyCombine ==
    /\ ret = Pending
    /\ ret' = <<_combine_and_save("ga", call.c, call.v, overlap_ratio_default,
                                  call.crossfade_ms, first_naming_rule_default)>>
    /\ UNCHANGED <<pipeline, call>>

NextCombine == ApplyCombine

SpecCombine == InitCombine /\ [][NextCombine]_vars

\* _combine_and_save returned (entry, wav_name), not (None, None)
Combined == ret # Pending /\ ret[1][2] # None

\* C8 (as the code has it): for two non-empty fragments the crossfade length
\* used is at most half the shorter fragment, or one sample when that half is
\* zero, and the combined waveform has len1 + len2 - crossfade_samples samples.
C8_CrossfadeLength ==
    Combined =>
        LET e == ret[1][1]
        IN  /\ e.crossfade_samples <= Max(1, Min(e.len1, e.len2) \div 2)
            /\ e.combined = e.len1 + e.len2 - e.crossfade_samples

\* a fragment of one sample was combined
C8_Witness ==
    /\ Combined
    /\ Min(ret[1][1].len1, ret[1][1].len2) = 1
    /\ ret[1][1].crossfade_samples = 1

\* C8 as stated: the crossfade is never longer than half the shorter fragment
C8_AsStated ==
    Combined =>
        LET e == ret[1][1]
        IN  /\ e.crossfade_samples <= Min(e.len1, e.len2) \div 2
            /\ e.combined = e.len1 + e.len2 - e.crossfade_samples
\* ------------------------------------------------ the resolvers, called directly

\* the phones of a syllable built from a key of the exception table
KeyPhones(key) == IF key[1] = "" THEN <<key[2]>> ELSE <<key[1], key[2]>>

NoKey == <<>>

\* the calls explored: every key of the exception table through both resolvers,
\* every consonant of the classifier with every vowel, bare and toned, every
\* vowel alone and with every coda, syllables with an onset that is spelled
\* with no letter and a medial, and every vowel of the final table on its own
\* through ipa_to_alias
ResolverCalls ==
    {[fn |-> f, phones |-> KeyPhones(key), key |-> key] :
        f \in {"_syllable_to_pinyin", "_ipa_to_pinyin"},
        key \in DOMAIN IPA_SYLLABLE_TO_PINYIN}
    \cup {[fn |-> "_syllable_to_pinyin", phones |-> <<c, v \o t>>, key |-> NoKey] :
             c \in CHINESE_CONSONANTS, v \in CHINESE_VOWELS, t \in {"", "!"}}
    \cup {[fn |-> "_syllable_to_pinyin", phones |-> <<v>>, key |-> NoKey] :
             v \in CHINESE_VOWELS}
    \cup {[fn |-> "_syllable_to_pinyin", phones |-> <<v \o t, cd>>, key |-> NoKey] :
             v \in CHINESE_VOWELS, t \in {"", "!"}, cd \in CHINESE_CODAS}
    \cup {[fn |-> "_syllable_to_pinyin", phones |-> <<c, m, v>>, key |-> NoKey] :
             c \in {"j", "Q"}, m \in CHINESE_MEDIALS, v \in {"a", "e", "i"}}
    \cup {[fn |-> "_ipa_to_pinyin", phones |-> <<v>>, key |-> NoKey] :
             v \in DOMAIN CHINESE_VOWEL_TO_PINYIN}

InitResolver ==
    /\ PipelineIdle
    /\ call \in ResolverCalls
    /\ ret = Pending

\* the resolver of the structured-system segmenter (lines 999 and 1404)
ApplySyllableToPinyin ==
    /\ call.fn = "_syllable_to_pinyin"
    /\ ret = Pending
    /\ ret' = <<_syllable_to_pinyin(call.phones, "chinese", FALSE)>>
    /\ UNCHANGED <<pipeline, call>>

\* the resolver behind ipa_to_alias, given (consonant or None, vowel)
ApplyIpaToPinyin ==
    /\ call.fn = "_ipa_to_pinyin"
    /\ ret = Pending
    /\ ret' = <<ipa_to_alias(IF Len(call.phones) = 1 THEN None ELSE call.phones[1],
                             call.phones[Len(call.phones)], "chinese", FALSE)>>
    /\ UNCHANGED <<pipeline, call>>

NextResolver == ApplySyllableToPinyin \/ ApplyIpaToPinyin

SpecResolver == InitResolver /\ [][NextResolver]_vars

\* C9 as stated: a syllable whose consonant has no entry in the onset table, or
\* whose vowel has no entry in the final table, resolves to no alias.
C9_UnmappedYieldsNoAlias ==
    (ret # Pending /\ call.fn = "_syllable_to_pinyin") =>
        LET p == SyllableParse(call.phones, "chinese")
        IN  (p.ok /\ (\/ (p.c # "" /\ p.c \notin DOMAIN CHINESE_CONSONANT_TO_PINYIN)
                      \/ p.v \notin DOMAIN CHINESE_VOWEL_TO_PINYIN))
               => ret[1] = None

\* C10 as stated: a syllable built from the phones of a key of the exception
\* table resolves to the alias the table stores for that key.
C10_TableRoundTrip ==
    (ret # Pending /\ call.key # NoKey) => ret[1] = IPA_SYLLABLE_TO_PINYIN[call.key]

\* the first letter of a final names its class: i, u, or v (for u-diaeresis)
GlideClass(final) == final # "" /\ SubSeq(final, 1, 1) \in {"i", "u", "v"}
StartsWithGlide(alias) == alias # None /\ alias # "" /\ SubSeq(alias, 1, 1) \in {"y", "w"}

\* the final a call of the syllable resolver is spelled from, and whether the
\* syllable has an onset letter
ZeroInitial(phones) ==
    LET p == SyllableParse(phones, "chinese")
    IN  p.ok /\ Get(CHINESE_CONSONANT_TO_PINYIN, p.c, "") = ""
FinalOf(phones) ==
    LET p == SyllableParse(phones, "chinese")
    IN  SyllableFinal(p.m, Get(CHINESE_VOWEL_TO_PINYIN, p.v, p.v), p.cd)

\* C11: a syllable with no onset letter whose final is of the i-, u- or
\* u-diaeresis class resolves, through either resolver, to an alias that begins
\* with y or w (so never to the bare final); the vowel-only syllable i resolves
\* to yi.
C11_ZeroInitialGlide ==
    ret # Pending =>
        /\ (call.fn = "_syllable_to_pinyin" /\ ZeroInitial(call.phones)
                /\ GlideClass(FinalOf(call.phones)))
              => StartsWithGlide(ret[1])
        /\ (call.fn = "_ipa_to_pinyin" /\ Len(call.phones) = 1
                /\ call.phones[1] \in DOMAIN CHINESE_VOWEL_TO_PINYIN
                /\ GlideClass(CHINESE_VOWEL_TO_PINYIN[call.phones[1]]))
              => StartsWithGlide(ret[1])
        /\ call.phones = <<"i">> => ret[1] = "yi"

\* the vowel-only syllable i has been resolved by the syllable resolver
C11_Witness ==
    /\ ret # Pending
    /\ call.fn = "_syllable_to_pinyin"
    /\ call.phones = <<"i">>
    /\ ret[1] = "yi"

\* the syllable attempt the structured segmenter is about to make at the cursor
\* does not reach its vowel
AttemptFails ==
    /\ pc = "cv" /\ IsChinese(language)
    /\ i < Len(intervals) /\ ~IsSkip(intervals, i)
    /\ \E s1 \in {CvInitial(intervals, word_ranges(words_tier), language, i)} :
       \E s2 \in {CvMedial(intervals, word_ranges(words_tier), i, s1)} :
          CvVowel(intervals, language, i, s2).stop

\* C19 as stated: a syllable attempt of the structured segmenter that does not
\* reach its vowel emits nothing and moves the cursor on by exactly one phone.
C19_FailedAttemptAdvancesOne ==
    [][(AttemptFails /\ pc' = "cv") => (entries' = entries /\ i' = i + 1)]_vars

\* the entries that phone k (0-based) of the tier is a member of
EntriesOf(k) ==
    {n \in 1..Len(entries) : \E m \in 1..Len(entries[n].members) : entries[n].members[m] = k}

\* phone k is a consonant that the unstructured segmenter pairs with phone k + 1
PairedAt(k) ==
    /\ k >= 0 /\ k + 1 < Len(intervals)
    /\ is_consonant(Mark(intervals, k), language)
    /\ ~IsSkip(intervals, k + 1)
    /\ is_vowel(Mark(intervals, k + 1), language)
    /\ SpansSupplied => InOneSpan(intervals[k + 1].minTime, intervals[k + 2].minTime)

\* entry n is built from exactly the phones from..to, and spans them
Spans(n, from, to) ==
    /\ entries[n].members = [m \in 1..(to - from + 1) |-> from + m - 1]
    /\ entries[n].offset = Round1(intervals[from + 1].minTime)
    /\ entries[n].segment_duration = intervals[to + 1].maxTime - intervals[from + 1].minTime

\* the onset of a unit that has no consonant: min(30 ms, 20% of its duration)
ZeroOnset(k) ==
    Min(30 * TicksPerMs, Ratio(intervals[k + 1].maxTime - intervals[k + 1].minTime, 20))

JapaneseDone == pc = "done" /\ IsJapanese(language)

Keys(d) == {d[k][1] : k \in 1..Len(d)}
Item(d, key) == d[CHOOSE k \in 1..Len(d) : d[k][1] = key][2]

\* str.isascii(): a kana is written "#..." here, everything else is ASCII
isascii(s) == ~StartsWith(s, "#")

valid_vowels_chinese ==
    {"a", "o", "e", "i", "u", "v", "ai", "ei", "ao", "ou",
     "an", "en", "ang", "eng", "ong",
     "ia", "ie", "iao", "iu", "ian", "in", "iang", "ing", "iong",
     "ua", "uo", "uai", "ui", "uan", "un", "uang", "ueng",
     "ve", "van", "vn", "er"}
valid_vowels_japanese == {"a", "i", "u", "e", "o"}

all_consonants ==
    <<"b", "p", "m", "f", "d", "t", "n", "l", "g", "k", "h",
      "j", "q", "x", "zh", "ch", "sh", "r", "z", "c", "s", "y", "w">>

all_vowels ==
    <<"a", "o", "e", "i", "u", "v", "ai", "ei", "ao", "ou",
      "an", "en", "ang", "eng", "ong",
      "ia", "ie", "iao", "iu", "ian", "in", "iang", "ing", "iong",
      "ua", "uo", "uai", "ui", "uan", "un", "uang", "ueng",
      "ve", "van", "vn", "er">>

Least(S) == CHOOSE x \in S : \A y \in S : x <= y

\* a lookup that takes any available phoneme when the target is missing
_find_fuzzy_substitute_any(phoneme, available_phonemes, groups) ==
    IF phoneme \in available_phonemes THEN phoneme
    ELSE IF available_phonemes = {} THEN None
    ELSE CHOOSE x \in available_phonemes : TRUE

\* the phoneme itself when available, else the first available other member of
\* the first group that holds it, else None
_find_fuzzy_substitute(phoneme, available_phonemes, groups) ==
    IF phoneme \in available_phonemes THEN phoneme
    ELSE LET holding == {g \in 1..Len(groups) :
                            \E m \in 1..Len(groups[g]) : groups[g][m] = phoneme}
         IN  IF holding = {} THEN None
             ELSE LET group == groups[Least(holding)]
                      usable == {m \in 1..Len(group) :
                                    group[m] # phoneme /\ group[m] \in available_phonemes}
                  IN  IF usable = {} THEN None ELSE group[Least(usable)]

\* a candidate named after the phonemes it is built from
FuzzyTargetNamedAfterActual(consonants, vowels, generated_aliases, target_c, target_v) ==
    LET actual_c == _find_fuzzy_substitute(target_c, Keys(consonants), FUZZY_CONSONANT_GROUPS)
        actual_v == _find_fuzzy_substitute(target_v, Keys(vowels), FUZZY_VOWEL_GROUPS)
    IN  IF (target_c \o target_v) \in generated_aliases THEN <<>>
        ELSE IF actual_c = None \/ actual_v = None THEN <<>>
        ELSE IF actual_c = target_c /\ actual_v = target_v THEN <<>>
        ELSE <<[alias |-> actual_c \o actual_v,
                base_alias |-> actual_c \o actual_v,
                consonant_info |-> Item(consonants, actual_c),
                vowel_info |-> Item(vowels, actual_v),
                is_fuzzy |-> TRUE,
                fuzzy_from |-> actual_c \o "+" \o actual_v]>>

\* one iteration of the inner loop of _generate_fuzzy_candidates: the candidate
\* for the target, as a sequence of at most one element
FuzzyTarget(consonants, vowels, generated_aliases, target_c, target_v) ==
    LET actual_c == _find_fuzzy_substitute(target_c, Keys(consonants), FUZZY_CONSONANT_GROUPS)
        actual_v == _find_fuzzy_substitute(target_v, Keys(vowels), FUZZY_VOWEL_GROUPS)
    IN  IF (target_c \o target_v) \in generated_aliases THEN <<>>
        ELSE IF actual_c = None \/ actual_v = None THEN <<>>
        ELSE IF actual_c = target_c /\ actual_v = target_v THEN <<>>
        ELSE IF actual_c \notin Keys(consonants) \/ actual_v \notin Keys(vowels)
        THEN <<>>   \* consonants.get(actual_c) or vowels.get(actual_v) is None
        ELSE <<[alias |-> target_c \o target_v,
                base_alias |-> target_c \o target_v,
                consonant_info |-> Item(consonants, actual_c),
                vowel_info |-> Item(vowels, actual_v),
                is_fuzzy |-> TRUE,
                fuzzy_from |-> actual_c \o "+" \o actual_v]>>

AliasesOf(cands) == {cands[k].alias : k \in 1..Len(cands)}

\* the iterations lo..hi of the nested loops of _generate_fuzzy_candidates,
\* numbered in the order they run (iteration t has the target consonant
\* (t - 1) \div 36 + 1 and the target vowel (t - 1) % 36 + 1); generated is
\* generated_aliases as the iterations before lo left it.  The first half runs
\* before the second, which sees the aliases the first half added.
RECURSIVE FuzzyLoop(_, _, _, _, _)
FuzzyLoop(consonants, vowels, generated, lo, hi) ==
    IF lo = hi
    THEN FuzzyTarget(consonants, vowels, generated,
                     all_consonants[((lo - 1) \div Len(all_vowels)) + 1],
                     all_vowels[((lo - 1) % Len(all_vowels)) + 1])
    ELSE CHOOSE r \in
            {first \o FuzzyLoop(consonants, vowels, generated \cup AliasesOf(first),
                                (lo + hi) \div 2 + 1, hi) :
                first \in {FuzzyLoop(consonants, vowels, generated, lo,
                                     (lo + hi) \div 2)}} : TRUE

_generate_fuzzy_candidates(consonants, vowels, existing_aliases, normal_candidates) ==
    FuzzyLoop(consonants, vowels,
              {normal_candidates[k].base_alias : k \in 1..Len(normal_candidates)}
                  \cup existing_aliases,
              1, Len(all_consonants) * Len(all_vowels))

\* the body of the loops of _generate_candidates for one consonant and vowel
NormalCandidate(c, v, existing_aliases, lang, use_hira) ==
    LET combined_romaji == c[1] \o v[1]
        final_alias == IF use_hira THEN Get(ROMAJI_TO_HIRAGANA, combined_romaji, None)
                       ELSE combined_romaji
        valid_vowels == IF IsChinese(lang) THEN valid_vowels_chinese
                        ELSE valid_vowels_japanese
    IN  IF ~isascii(c[1]) \/ ~isascii(v[1]) THEN <<>>
        ELSE IF v[1] \notin valid_vowels /\ Len(v[1]) > 2 THEN <<>>
        ELSE IF final_alias = None THEN <<>>
        ELSE IF final_alias \in existing_aliases THEN <<>>
        ELSE IF combined_romaji \in existing_aliases THEN <<>>
        ELSE <<[alias |-> final_alias,
                base_alias |-> combined_romaji,
                consonant_info |-> c[2],
                vowel_info |-> v[2],
                is_fuzzy |-> FALSE,
                fuzzy_from |-> None]>>

\* the nested loops over consonants.items() and vowels.items(), from (ci, vi)
RECURSIVE NormalLoop(_, _, _, _, _, _, _)
NormalLoop(consonants, vowels, existing_aliases, lang, use_hira, ci, vi) ==
    IF ci > Len(consonants) THEN <<>>
    ELSE IF vi > Len(vowels)
    THEN NormalLoop(consonants, vowels, existing_aliases, lang, use_hira, ci + 1, 1)
    ELSE NormalCandidate(consonants[ci], vowels[vi], existing_aliases, lang, use_hira)
         \o NormalLoop(consonants, vowels, existing_aliases, lang, use_hira, ci, vi + 1)

\* a normal candidate has no is_fuzzy and no fuzzy_from key: FALSE and None
\* stand for the absent keys
_generate_candidates(consonants, vowels, existing_aliases, lang, use_hira, fuzzy_phoneme) ==
    LET candidates == NormalLoop(consonants, vowels, existing_aliases, lang, use_hira, 1, 1)
    IN  IF fuzzy_phoneme /\ IsChinese(lang)
        THEN candidates \o _generate_fuzzy_candidates(consonants, vowels, existing_aliases,
                                                      candidates)
        ELSE candidates

\* the consonants and vowels with an exemplar, and the aliases the selection
\* kept, that the candidate generator is explored with
ConsonantKeys == <<"sh", "s", "n", "r">>
VowelKeys == <<"a", "an", "ang">>
ExistingAliases == {"sha", "la"}

Reverse(q) == [k \in 1..Len(q) |-> q[Len(q) + 1 - k]]

\* the dict of the keys in S, inserted in the order of keys; the value of a key
\* names its exemplar
DictOf(keys, S) ==
    LET In(k) == k \in S
        kept == SelectSeq(keys, In)
    IN  [k \in 1..Len(kept) |-> <<kept[k], [exemplar |-> kept[k]]>>]

Dicts(keys) == {DictOf(keys, S) : S \in SUBSET {keys[k] : k \in 1..Len(keys)}}

InitCandidates ==
    /\ PipelineIdle
    /\ \E cs \in Dicts(ConsonantKeys) \cup Dicts(Reverse(ConsonantKeys)) :
       \E vs \in Dicts(VowelKeys) :
       \E ex \in SUBSET ExistingAliases : \E lang \in {"chinese", "japanese"} :
       \E hira \in BOOLEAN : \E fuzzy \in BOOLEAN :
          /\ hira => IsJapanese(lang)
          /\ call = [fn |-> "_generate_candidates", consonants |-> cs, vowels |-> vs,
                     existing_aliases |-> ex, language |-> lang, use_hiragana |-> hira,
                     fuzzy_phoneme |-> fuzzy]
    /\ ret = Pending

ApplyGenerateCandidates ==
    /\ ret = Pending
    /\ ret' = <<_generate_candidates(call.consonants, call.vowels, call.existing_aliases,
                                     call.language, call.use_hiragana, call.fuzzy_phoneme)>>
    /\ UNCHANGED <<pipeline, call>>

NextCandidates == ApplyGenerateCandidates

SpecCandidates == InitCandidates /\ [][NextCandidates]_vars

\* the fuzzy candidates returned for the target alias
FuzzyFor(alias) ==
    {k \in 1..Len(ret[1]) : ret[1][k].is_fuzzy /\ ret[1][k].alias = alias}

\* the members of the groups that hold phoneme, phoneme excepted
GroupMates(phoneme, groups) ==
    UNION {{groups[g][m] : m \in 1..Len(groups[g])} :
              g \in {h \in 1..Len(groups) :
                        \E n \in 1..Len(groups[h]) : groups[h][n] = phoneme}}
    \ {phoneme}

\* the axis of a target resolves: the target has an exemplar, or a member of a
\* group of the target has one
Resolves(phoneme, d, groups) ==
    phoneme \in Keys(d) \/ GroupMates(phoneme, groups) \cap Keys(d) # {}

Returned == ret # Pending

NormalAliases == {ret[1][k].base_alias : k \in {n \in 1..Len(ret[1]) : ~ret[1][n].is_fuzzy}}

\* C13: a fuzzy candidate is returned for a target (consonant, vowel) only if
\* the consonant axis and the vowel axis both resolve, to the target's own
\* exemplar or to that of a member of its group, and the target alias is not in
\* the existing aliases and was not generated before (by a normal candidate or
\* by another fuzzy one); every fuzzy candidate is the candidate of a target.
C13_FuzzyOnlyWhenResolved ==
    Returned =>
        /\ \A ci \in 1..Len(all_consonants) : \A vi \in 1..Len(all_vowels) :
              \A alias \in {all_consonants[ci] \o all_vowels[vi]} :
                 /\ Cardinality(FuzzyFor(alias)) <= 1
                 /\ FuzzyFor(alias) # {} =>
                       /\ Resolves(all_consonants[ci], call.consonants, FUZZY_CONSONANT_GROUPS)
                       /\ Resolves(all_vowels[vi], call.vowels, FUZZY_VOWEL_GROUPS)
                       /\ alias \notin call.existing_aliases
                       /\ alias \notin NormalAliases
        /\ \A k \in 1..Len(ret[1]) : ret[1][k].is_fuzzy =>
              \E ci \in 1..Len(all_consonants) : \E vi \in 1..Len(all_vowels) :
                 ret[1][k].alias = all_consonants[ci] \o all_vowels[vi]

\* fuzzy candidates were returned, while the target "la", whose consonant
\* resolves through "n", was left out because the alias exists, and the targets
\* of "b", which has no group, were left out because the axis does not resolve
C13_Witness ==
    /\ Returned
    /\ FuzzyFor("sha") # {} /\ FuzzyFor("lan") # {}
    /\ "la" \in call.existing_aliases /\ "n" \in Keys(call.consonants)
    /\ "a" \in Keys(call.vowels)
    /\ FuzzyFor("la") = {} /\ FuzzyFor("ba") = {}

\* the exemplars of the available members of the groups of phoneme
MateExemplars(phoneme, d, groups) ==
    {Item(d, m) : m \in GroupMates(phoneme, groups) \cap Keys(d)}

\* C14: for a target (consonant, vowel) whose consonant has no exemplar while
\* another member of its group has one, a fuzzy candidate returned for the
\* target uses the exemplar of such a member, is flagged fuzzy and carries the
\* alias target consonant + target vowel; and when the vowel has an exemplar and
\* the target alias neither exists nor was generated, that candidate is returned.
C14_SubstituteKeepsTargetAlias ==
    (Returned /\ call.fuzzy_phoneme /\ IsChinese(call.language)) =>
        \A ci \in 1..Len(all_consonants) : \A vi \in 1..Len(all_vowels) :
           \A alias \in {all_consonants[ci] \o all_vowels[vi]} :
              (/\ all_consonants[ci] \notin Keys(call.consonants)
               /\ MateExemplars(all_consonants[ci], call.consonants,
                                FUZZY_CONSONANT_GROUPS) # {})
              => /\ \A k \in 1..Len(ret[1]) :
                       (ret[1][k].is_fuzzy /\ ret[1][k].alias = alias) =>
                          /\ ret[1][k].consonant_info \in
                                MateExemplars(all_consonants[ci], call.consonants,
                                              FUZZY_CONSONANT_GROUPS)
                          /\ ret[1][k].base_alias = alias
                 /\ (/\ all_vowels[vi] \in Keys(call.vowels)
                     /\ alias \notin call.existing_aliases
                     /\ alias \notin NormalAliases)
                    => \E k \in 1..Len(ret[1]) :
                          /\ ret[1][k].is_fuzzy /\ ret[1][k].alias = alias
                          /\ ret[1][k].vowel_info = Item(call.vowels, all_vowels[vi])

\* "sh" has no exemplar and "s" has one: the candidate "sha" was returned,
\* built from the exemplar of "s"
C14_Witness ==
    /\ Returned
    /\ "sh" \notin Keys(call.consonants) /\ "s" \in Keys(call.consonants)
    /\ \E k \in 1..Len(ret[1]) :
          /\ ret[1][k].is_fuzzy /\ ret[1][k].alias = "sha"
          /\ ret[1][k].consonant_info = Item(call.consonants, "s")
          /\ ret[1][k].fuzzy_from = "s+a"

\* ------------------------------------------------------------------ the export

\* _extract_cv_pairs: the while loop, from the cursor i0 to the end of the tier
RECURSIVE _extract_cv_pairs(_, _, _, _, _, _, _, _)
_extract_cv_pairs(ivs, ranges, lang, use_hira, i0, wav, duration_ms, overlap_ratio) ==
    IF i0 >= Len(ivs) THEN <<>>
    ELSE CHOOSE x \in
            {r.out \o _extract_cv_pairs(ivs, ranges, lang, use_hira, r.i, wav, duration_ms,
                                        overlap_ratio) :
                r \in {CvIteration(ivs, ranges, lang, use_hira, i0, wav, duration_ms,
                                   overlap_ratio)}} : TRUE

\* the syllable parse of _extract_vc_pairs, from the cursor i0
RECURSIVE VcSyllables(_, _, _)
VcSyllables(ivs, lang, i0) ==
    IF i0 >= Len(ivs) THEN <<>>
    ELSE CHOOSE x \in
            {r.out \o VcSyllables(ivs, lang, r.i) : r \in {VcIteration(ivs, lang, i0)}} : TRUE

_extract_vc_pairs(ivs, lang, wav, duration_ms, vc_offset_ratio, vc_overlap_ratio, vc_separator) ==
    IF ~IsChinese(lang) THEN <<>>
    ELSE VcPairs(VcSyllables(ivs, lang, 0), 0, wav, duration_ms, vc_offset_ratio,
                 vc_overlap_ratio, vc_separator)

\* the position in tg of the tier _parse_textgrids takes: the last tier with
\* one of the names, else the tier at position nth if there is one, else 0
TierOf(tg, names, nth) ==
    LET hits == {k \in 1..Len(tg) : tg[k].name \in names}
    IN  IF hits # {} THEN CHOOSE k \in hits : \A h \in hits : h <= k
        ELSE IF Len(tg) >= nth THEN nth ELSE 0

\* a test that lets a transcript through that could not be parsed
FileSkippedAudioOnly(f) ==
    \/ f.wav # "ok"
    \/ TierOf(f.tiers, {"phones", "phone"}, 2) = 0

\* the file contributes nothing: its audio is missing or cannot be read, its
\* transcript cannot be parsed, or it has no phones tier
FileSkipped(f) ==
    \/ f.wav # "ok"
    \/ f.tg # "ok"
    \/ TierOf(f.tiers, {"phones", "phone"}, 2) = 0

\* the body of the for loop of _parse_textgrids for one file: its entries
FileEntries(f, lang, use_hira, cvvc) ==
    IF FileSkipped(f) THEN <<>>
    ELSE CHOOSE x \in
        {_extract_cv_pairs(ivs, word_ranges(f.tiers[TierOf(f.tiers, {"words", "word"}, 1)].intervals),
                           lang, use_hira, 0, f.wav_name, f.duration_ms,
                           overlap_ratio_default)
         \o (IF cvvc
             THEN _extract_vc_pairs(ivs, lang, f.wav_name, f.duration_ms,
                                    vc_offset_ratio_default, vc_overlap_ratio_default,
                                    vc_alias_separator_default)
             ELSE <<>>) :
            ivs \in {f.tiers[TierOf(f.tiers, {"phones", "phone"}, 2)].intervals}} : TRUE

\* oto_entries.extend: a dict appended at position k has the identity k
Extended(heap, es) ==
    heap \o [k \in 1..Len(es) |-> es[k] @@ [id |-> Len(heap) + k]]

\* --- the selection, in place

\* the duration-only scoring of _filter_by_alias: score maps a segment_duration
\* to the score duration_score gives it
Scored(heap, score) ==
    [k \in 1..Len(heap) |->
        IF heap[k].alias # "" /\ Strip(heap[k].alias) # ""
        THEN [quality_score |-> score[heap[k].segment_duration]] @@ heap[k]
        ELSE heap[k]]

\* the dicts of the raw list after the selection wrote the final alias of each
\* kept entry into the entry itself
WrittenBack(heap, filtered) ==
    [k \in 1..Len(heap) |->
        IF \E n \in 1..Len(filtered) : filtered[n].id = k
        THEN filtered[CHOOSE n \in 1..Len(filtered) : filtered[n].id = k]
        ELSE heap[k]]

\* --- the fragments of the synthesizer

Digits == {"0", "1", "2", "3", "4", "5", "6", "7", "8", "9"}

\* a kana "#x" is the kana of the romaji x; every kana of ROMAJI_TO_HIRAGANA is
\* a key of hiragana_to_romaji_map
_hiragana_to_romaji(text) ==
    LET base_text == RStrip(text, Digits)
    IN  IF \E r \in DOMAIN ROMAJI_TO_HIRAGANA : ROMAJI_TO_HIRAGANA[r] = base_text
        THEN From1(base_text)
        ELSE IF isascii(base_text) THEN base_text
        ELSE None

split_consonants_chinese ==
    <<"zh", "ch", "sh", "ng", "b", "p", "m", "f", "d", "t", "n", "l", "g", "k", "h",
      "j", "q", "x", "z", "c", "s", "r", "y", "w">>
split_consonants_japanese ==
    <<"ch", "sh", "ts", "ny", "ky", "gy", "py", "by", "my", "ry", "hy",
      "k", "g", "s", "z", "t", "d", "n", "h", "b", "p", "m", "r", "w", "y", "f", "j">>

\* <<consonant part, vowel part>>, None for a part that is missing
_split_alias_to_cv(alias, lang) ==
    LET romaji == _hiragana_to_romaji(alias)
        alias_to_split == IF romaji = None THEN alias ELSE romaji
        consonants == IF IsChinese(lang) THEN split_consonants_chinese
                      ELSE split_consonants_japanese
        hits == {k \in 1..Len(consonants) : StartsWith(alias_to_split, consonants[k])}
        c == consonants[Least(hits)]
    IN  IF alias = "" THEN <<None, None>>
        ELSE IF hits = {} THEN <<None, alias_to_split>>
        ELSE IF Len(alias_to_split) > Len(c)
        THEN <<c, SubSeq(alias_to_split, Len(c) + 1, Len(alias_to_split))>>
        ELSE <<c, None>>

\* the fragments _collect_phoneme_segments appends for one entry: <<key, info>>
\* items of consonant_segments (axis "c") or vowel_segments (axis "v")
Fragments(e, lang, axis) ==
    LET parts == _split_alias_to_cv(e.alias, lang)
    IN  IF axis = "c"
        THEN IF Truthy(parts[1])
             THEN <<<<parts[1], [wav_name |-> e.wav_name, offset_ms |-> e.offset,
                                 duration_ms |-> e.consonant,
                                 quality_score |-> e.quality_score]>>>>
             ELSE <<>>
        ELSE IF Truthy(parts[2]) /\ e.segment_duration - e.consonant > 0
             THEN <<<<parts[2], [wav_name |-> e.wav_name,
                                 offset_ms |-> e.offset + e.consonant,
                                 duration_ms |-> e.segment_duration - e.consonant,
                                 quality_score |-> e.quality_score]>>>>
             ELSE <<>>

\* the items appended for the entries from position k on, in order; an entry
\* whose audio file is not there is passed over
RECURSIVE AllFragments(_, _, _, _, _)
AllFragments(heap, present, lang, axis, k) ==
    IF k > Len(heap) THEN <<>>
    ELSE (IF heap[k].wav_name \in present THEN Fragments(heap[k], lang, axis) ELSE <<>>)
         \o AllFragments(heap, present, lang, axis, k + 1)

Abs(x) == IF x < 0 THEN -x ELSE x

\* sorted(durations)[len(durations) // 2]
MedianDuration(top) ==
    CHOOSE d \in {top[k].duration_ms : k \in 1..Len(top)} :
        /\ Cardinality({k \in 1..Len(top) : top[k].duration_ms < d}) <= Len(top) \div 2
        /\ Cardinality({k \in 1..Len(top) : top[k].duration_ms <= d}) > Len(top) \div 2

\* of the five best by score, the first whose duration is nearest the median
_select_best_consonant(segments) ==
    LET sorted == sorted_group(segments)
        top == SubSeq(sorted, 1, Min(5, Len(sorted)))
        median_duration == MedianDuration(top)
        nearest == {k \in 1..Len(top) : \A n \in 1..Len(top) :
                       Abs(top[k].duration_ms - median_duration)
                           <= Abs(top[n].duration_ms - median_duration)}
    IN  IF Len(top) = 1 THEN top[1] ELSE top[Least(nearest)]

\* of the five best by score, the first of the longest
_select_best_vowel(segments) ==
    LET sorted == sorted_group(segments)
        top == SubSeq(sorted, 1, Min(5, Len(sorted)))
        longest == {k \in 1..Len(top) : \A n \in 1..Len(top) :
                       top[k].duration_ms >= top[n].duration_ms}
    IN  top[Least(longest)]

\* best_consonants or best_vowels: for each key, in the order the keys were
\* inserted, the best of its fragments
RECURSIVE BestOfEach(_, _, _)
BestOfEach(items, axis, done) ==
    IF items = <<>> THEN <<>>
    ELSE LET key == Head(items)[1]
             Mine(it) == it[1] = key
             mine == SelectSeq(items, Mine)
             segments == [k \in 1..Len(mine) |-> mine[k][2]]
         IN  IF key \in done THEN BestOfEach(Tail(items), axis, done)
             ELSE <<<<key, IF axis = "c" THEN _select_best_consonant(segments)
                           ELSE _select_best_vowel(segments)>>>>
                  \o BestOfEach(Tail(items), axis, done \cup {key})

_collect_phoneme_segments(heap, present, lang, axis) ==
    BestOfEach(AllFragments(heap, present, lang, axis, 1), axis, {})

\* --- the run of export

\* most files in a batch
MaxFiles == 2

\* one word over the whole tier
OneWord(ivs) == <<[mark |-> "w1", minTime |-> 0, maxTime |-> ivs[Len(ivs)].maxTime]>>

\* a transcript with its audio: the state of the audio file, its rate in kHz
\* and its length, the state of the TextGrid file, and its tiers (tiers named
\* words and phones, tiers found by position, or a words tier only); every
\* phone is 100 ms long
AFile(wav, sr, duration_ms, tg, tiers, marks) ==
    [wav |-> wav, sr |-> sr, tg |-> tg, duration_ms |-> duration_ms * TicksPerMs,
     tiers |->
        IF tiers = "words only"
        THEN <<[name |-> "words",
                intervals |-> OneWord(PhoneTier(marks, 100 * TicksPerMs, 0))]>>
        ELSE <<[name |-> IF tiers = "named" THEN "words" ELSE "t1",
                intervals |-> OneWord(PhoneTier(marks, 100 * TicksPerMs, 0))],
               [name |-> IF tiers = "named" THEN "phones" ELSE "t2",
                intervals |-> PhoneTier(marks, 100 * TicksPerMs, 0)]>>]

\* the files explored: three that can be used (the second at another rate, the
\* third with audio that ends before its last phone starts), and one for each
\* way a file fails
FileKinds ==
    {AFile("ok", 1, 400, "ok", "by position", <<"n", "a!", "l", "i">>),
     AFile("ok", 2, 200, "ok", "named", <<"m", "o">>),
     AFile("ok", 1, 300, "ok", "named", <<"n", "a!", "l", "i">>),
     AFile("missing", 1, 200, "ok", "named", <<"n", "a!">>),
     AFile("unreadable", 1, 200, "ok", "named", <<"n", "a!">>),
     AFile("ok", 1, 200, "unparseable", "named", <<"n", "a!">>),
     AFile("ok", 1, 200, "ok", "words only", <<"n", "a!">>)}

WavNames == <<"f1.wav", "f2.wav", "f3.wav">>

\* <<naming_rule, first_naming_rule, max_samples>>: the defaults of get_options,
\* and numbered names from the first sample on with one sample kept
NamingOptions == {<<"%p%%n%", "%p%", 5>>, <<"%p%%n%", "%p%%n%", 1>>}

InitExport ==
    /\ pc = "export"
    /\ language \in {"chinese", "japanese"}
    /\ cvvc_mode \in BOOLEAN
    /\ words_tier = <<>> /\ intervals = <<>> /\ i = 0
    /\ entries = <<>> /\ syllables = <<>>
    /\ disk = NoDisk /\ work = NoWork
    /\ \E n \in 0..MaxFiles : \E kinds \in [1..n -> FileKinds] : \E o \in NamingOptions :
       \E auto \in BOOLEAN : \E fuzzy \in BOOLEAN :
          /\ fuzzy => auto
          /\ call = [fn |-> "export",
                     tg_files |-> [k \in 1..n |-> kinds[k] @@ [wav_name |-> WavNames[k]]],
                     naming_rule |-> o[1], first_naming_rule |-> o[2],
                     max_samples |-> o[3],
                     auto_phoneme_combine |-> auto, fuzzy_phoneme |-> fuzzy]
    /\ ret = Pending

\* the audio files of slices_dir
Present == {call.tg_files[k].wav_name :
               k \in {n \in 1..Len(call.tg_files) : call.tg_files[n].wav # "missing"}}

\* export up to the call of _parse_textgrids: the export directory is made
ExportBegin ==
    /\ pc = "export"
    /\ disk' = [disk EXCEPT !.export_dir = TRUE]
    /\ pc' = "parse"
    /\ UNCHANGED <<language, cvvc_mode, words_tier, intervals, i, entries, syllables,
                   call, ret, work>>

\* one iteration of the for loop of _parse_textgrids
ParseFile ==
    /\ pc = "parse"
    /\ i < Len(call.tg_files)
    /\ entries' = Extended(entries, FileEntries(call.tg_files[i + 1], language,
                                                use_hiragana, cvvc_mode))
    /\ i' = i + 1
    /\ UNCHANGED <<pc, language, cvvc_mode, words_tier, intervals, syllables,
                   call, ret, disk, work>>

\* _parse_textgrids returns; export fails if there is no entry
ParseReturn ==
    /\ pc = "parse"
    /\ i >= Len(call.tg_files)
    /\ IF entries = <<>>
       THEN pc' = "done" /\ ret' = <<[success |-> FALSE]>>
       ELSE pc' = "filter" /\ ret' = ret
    /\ UNCHANGED <<language, cvvc_mode, words_tier, intervals, i, entries, syllables,
                   call, disk, work>>

\* the call of _filter_by_alias: the scores are those some duration_score
\* gives; the dicts kept are the dicts of oto_entries, changed in place
FilterEntries ==
    /\ pc = "filter"
    /\ \E score \in [{entries[k].segment_duration : k \in 1..Len(entries)} -> 0..MaxScore] :
       \E f \in {_filter_by_alias(Scored(entries, score), call.max_samples,
                                  call.naming_rule, call.first_naming_rule)} :
          /\ entries' = WrittenBack(Scored(entries, score), f.filtered)
          /\ work' = [work EXCEPT
                         !.filtered_entries = [k \in 1..Len(f.filtered) |-> f.filtered[k].id],
                         !.used_wavs = f.used_wavs]
    /\ pc' = IF call.auto_phoneme_combine THEN "combine" ELSE "write"
    /\ UNCHANGED <<language, cvvc_mode, words_tier, intervals, i, syllables,
                   call, ret, disk>>

\* the aliases of the entries of filtered_entries
existing_aliases ==
    {entries[work.filtered_entries[k]].alias : k \in 1..Len(work.filtered_entries)} \ {""}

\* _auto_combine_phonemes up to its loop: the fragments, the candidates
CombineBegin ==
    /\ pc = "combine"
    /\ \E cs \in {_collect_phoneme_segments(entries, Present, language, "c")} :
       \E vs \in {_collect_phoneme_segments(entries, Present, language, "v")} :
          IF cs = <<>> \/ vs = <<>>
          THEN pc' = "write" /\ UNCHANGED <<i, work>>
          ELSE \E cands \in {_generate_candidates(cs, vs, existing_aliases, language,
                                                  use_hiragana,
                                                  call.fuzzy_phoneme /\ IsChinese(language))} :
                  /\ work' = [work EXCEPT !.candidates = cands]
                  /\ i' = 0
                  /\ pc' = IF cands = <<>> THEN "write" ELSE "candidate"
    /\ UNCHANGED <<language, cvvc_mode, words_tier, intervals, entries, syllables,
                   call, ret, disk>>

\* sf.read of the file of a fragment: its samples and its rate
Loaded(info) ==
    LET f == call.tg_files[CHOOSE k \in 1..Len(call.tg_files) :
                               call.tg_files[k].wav_name = info.wav_name]
    IN  info @@ [audio |-> Samples(f.duration_ms, f.sr), sr |-> f.sr]

\* one iteration of the loop of _auto_combine_phonemes over the candidates
CombineCandidate ==
    /\ pc = "candidate"
    /\ i < Len(work.candidates)
    /\ \E r \in {_combine_and_save(work.candidates[i + 1].alias,
                                   Loaded(work.candidates[i + 1].consonant_info),
                                   Loaded(work.candidates[i + 1].vowel_info),
                                   overlap_ratio_default, crossfade_ms_default,
                                   call.first_naming_rule)} :
          IF r[2] = None
          THEN UNCHANGED <<work, disk>>
          ELSE /\ work' = [work EXCEPT !.new_entries = Append(@, r[1]),
                                       !.new_wavs = @ \cup {r[2]}]
               /\ disk' = [disk EXCEPT !.written = @ \cup {r[2]}]
    /\ i' = i + 1
    /\ UNCHANGED <<pc, language, cvvc_mode, words_tier, intervals, entries, syllables,
                   call, ret>>

\* _auto_combine_phonemes returns new_entries and new_wavs
CombineReturn ==
    /\ pc = "candidate"
    /\ i >= Len(work.candidates)
    /\ pc' = "write"
    /\ UNCHANGED <<language, cvvc_mode, words_tier, intervals, i, entries, syllables,
                   call, ret, disk, work>>

\* the rest of export: the audio files used are copied, oto.ini and
\* character.txt are written
ExportFinish ==
    /\ pc = "write"
    /\ work' = [work EXCEPT !.used_wavs = @ \cup work.new_wavs]
    /\ disk' = [disk EXCEPT !.written = @ \cup ((work.used_wavs \cup work.new_wavs) \cap Present)
                                          \cup {"oto.ini", "character.txt"}]
    /\ ret' = <<[success |-> TRUE]>>
    /\ pc' = "done"
    /\ UNCHANGED <<language, cvvc_mode, words_tier, intervals, i, entries, syllables, call>>

NextExport ==
    \/ ExportBegin \/ ParseFile \/ ParseReturn \/ FilterEntries
    \/ CombineBegin \/ CombineCandidate \/ CombineReturn \/ ExportFinish

SpecExport == InitExport /\ [][NextExport]_vars

\* ------------------------------------------------- properties of the export

\* export has returned
ExportReturned == pc = "done" /\ ret # Pending

\* C15: when no transcript is found for the whole batch, export reports
\* failure and, when it returns, the run has made no export directory
C15_NoInputNoDirectory ==
    (ExportReturned /\ call.tg_files = <<>>)
        => (ret = <<[success |-> FALSE]>> /\ ~disk.export_dir)


\* an entry without the identity it has in the raw list
Plain(e) == [k \in DOMAIN e \ {"id"} |-> e[k]]
PlainSeq(es) == [k \in 1..Len(es) |-> Plain(es[k])]

\* the file is one of: audio missing, audio unreadable, transcript that cannot
\* be parsed, no phones tier (no tier of that name and fewer than two tiers)
Fails(f) ==
    \/ f.wav \in {"missing", "unreadable"}
    \/ f.tg = "unparseable"
    \/ /\ \A k \in 1..Len(f.tiers) : f.tiers[k].name \notin {"phones", "phone"}
       /\ Len(f.tiers) < 2

\* the entries of the raw list when the batch holds f only
Alone(f) == PlainSeq(Extended(<<>>, FileEntries(f, language, use_hiragana, cvvc_mode)))

\* C16: in a batch, a file that fails adds no entry, any other file adds
\* exactly the entries it gives when it is the only file of the batch, and the
\* loop goes on to the next file whatever the file was
C16_FailingFileOnlyDropsItself ==
    [][(pc = "parse" /\ i < Len(call.tg_files))
          => /\ pc' = "parse" /\ i' = i + 1
             /\ PlainSeq(entries') =
                    PlainSeq(entries) \o (IF Fails(call.tg_files[i + 1]) THEN <<>>
                                          ELSE Alone(call.tg_files[i + 1]))]_vars

\* a batch of a file that fails and then a file that gives entries, both parsed
C16_Witness ==
    /\ pc = "parse" /\ i = 2
    /\ Fails(call.tg_files[1]) /\ ~Fails(call.tg_files[2])
    /\ entries # <<>> /\ PlainSeq(entries) = Alone(call.tg_files[2])


\* the fields of an entry that segmentation computed
Segmented(e) ==
    [alias |-> e.alias, wav_name |-> e.wav_name, offset |-> e.offset,
     consonant |-> e.consonant, cutoff |-> e.cutoff,
     preutterance |-> e.preutterance, overlap |-> e.overlap]

\* C18: the selection leaves every dict of the raw list, which is then handed
\* to the synthesizer, with the alias and the envelope segmentation gave it
C18_RawEntriesNotMutated ==
    [][pc = "filter"
          => \A k \in 1..Len(entries) : Segmented(entries'[k]) = Segmented(entries[k])]_vars


\* the samples of the file of a fragment that its range takes
FragmentSamples(info) ==
    SliceLen(Loaded(info).audio, Samples(info.offset_ms, Loaded(info).sr),
             Samples(info.duration_ms, Loaded(info).sr))

\* the fragments of the candidate have different rates, or one is empty
RateMismatch(cand) == Loaded(cand.consonant_info).sr # Loaded(cand.vowel_info).sr
EmptyFragment(cand) ==
    FragmentSamples(cand.consonant_info) = 0 \/ FragmentSamples(cand.vowel_info) = 0

\* C17: a candidate whose fragments differ in sample rate, or one of whose
\* fragments is empty, adds no entry and no audio file, and the loop goes on
\* with the next candidate; the loop is left only after the last candidate
C17_BadCandidateSkippedOnly ==
    [][/\ (/\ pc = "candidate" /\ i < Len(work.candidates)
           /\ (RateMismatch(work.candidates[i + 1]) \/ EmptyFragment(work.candidates[i + 1])))
          => /\ work'.new_entries = work.new_entries /\ work'.new_wavs = work.new_wavs
             /\ disk' = disk
             /\ pc' = "candidate" /\ i' = i + 1
       /\ (pc = "candidate" /\ pc' # "candidate") => i = Len(work.candidates)]_vars

\* the loop is done: a candidate was passed over for its rates, one for an empty
\* fragment, and a candidate after them gave an entry and an audio file
C17_Witness ==
    /\ pc = "write"
    /\ \E a \in 1..Len(work.candidates) : \E b \in 1..Len(work.candidates) :
       \E c \in 1..Len(work.candidates) :
          /\ a < c /\ b < c
          /\ RateMismatch(work.candidates[a])
          /\ ~RateMismatch(work.candidates[b]) /\ EmptyFragment(work.candidates[b])
          /\ "C" \o work.candidates[c].alias \o ".wav" \in disk.written
          /\ \A k \in 1..Len(work.new_entries) :
                work.new_entries[k].wav_name
                    \notin {"C" \o work.candidates[a].alias \o ".wav",
                            "C" \o work.candidates[b].alias \o ".wav"}


\* C12: no entry the synthesizer returns has the alias of an entry of the
\* filtered list it was given, whatever the naming templates
C12_NewAliasNotExisting ==
    pc = "write"
        => \A k \in 1..Len(work.new_entries) :
              work.new_entries[k].alias \notin existing_aliases


\* ------------------------------------------------ properties of transition units

\* the transition units emitted
VcUnits == {k \in 1..Len(entries) : entries[k].is_vc}

\* the position in the phones of a parsed syllable of its vowel: after the
\* consonant and after the medial, when it has them
VowelAt(ph) ==
    LET nc == IF is_consonant(ph[1], "chinese") THEN 1 ELSE 0
        nm == IF _strip_tone(ph[nc + 1]) \in CHINESE_MEDIALS THEN 1 ELSE 0
    IN  nc + nm + 1

\* of a parsed syllable: the start of its vowel phone, the end of its vowel
\* phone or of its coda when it has one, and the end of its last phone
TrueVowelStart(s) == intervals[s.members[VowelAt(s.phones)] + 1].minTime
TrueVowelEnd(s) == intervals[s.members[Len(s.members)] + 1].maxTime
TrueSyllableEnd(s) == intervals[s.members[Len(s.members)] + 1].maxTime

\* C21: every transition unit has offset = vowelEnd - (vowelEnd - vowelStart) * ro
\* and preutterance = (vowelEnd - vowelStart) * ro for the vowel span of the
\* syllable before it, with or without a consonant, and it ends where the
\* syllable after it ends
C21_TransitionOffsets ==
    pc = "done" =>
        \A k \in VcUnits :
            LET before == syllables[entries[k].members[1] + 1]
                after == syllables[entries[k].members[2] + 1]
                span == TrueVowelEnd(before) - TrueVowelStart(before)
            IN  /\ entries[k].offset =
                       Round1(TrueVowelEnd(before) - Ratio(span, vc_offset_ratio_default))
                /\ entries[k].preutterance = Round1(Ratio(span, vc_offset_ratio_default))
                /\ entries[k].offset + entries[k].segment_duration = TrueSyllableEnd(after)


\* the phones, by position, of the syllables each parse grouped
CvGroups == {entries[k].members : k \in ChineseSyllables}
VcGroups == {syllables[k].members : k \in 1..Len(syllables)}

\* C22: every syllable the parse of the transition units records is, phone for
\* phone, a syllable of the simple-unit segmenter (which also emits syllables
\* that have no entry in the presamp tables), and no syllable of it holds
\* phones of different words
C22_VcParseGatedBySameWord ==
    (pc = "done" /\ cvvc_mode /\ IsChinese(language)) =>
        /\ VcGroups \subseteq CvGroups
        /\ SpansSupplied =>
              \A k \in 1..Len(syllables) : \A m \in 2..Len(syllables[k].members) :
                  InOneSpan(intervals[syllables[k].members[1] + 1].minTime,
                            intervals[syllables[k].members[m] + 1].minTime)


\* ---------------------------------------- _find_fuzzy_substitute, called directly

\* the targets and the available phonemes explored, for each table of groups:
\* "an" and "ian" are in several groups of the vowel table, "er" and "b" in none
SubstituteCalls ==
    {[fn |-> "_find_fuzzy_substitute", phoneme |-> p, available_phonemes |-> av,
      groups |-> FUZZY_VOWEL_GROUPS] :
        p \in {"an", "ang", "ian", "a", "er"},
        av \in SUBSET {"a", "an", "ang", "ia", "iang"}}
    \cup
    {[fn |-> "_find_fuzzy_substitute", phoneme |-> p, available_phonemes |-> av,
      groups |-> FUZZY_CONSONANT_GROUPS] :
        p \in {"l", "n", "sh", "b"},
        av \in SUBSET {"s", "n", "r", "l"}}

InitSubstitute ==
    /\ PipelineIdle
    /\ call \in SubstituteCalls
    /\ ret = Pending

ApplyFindFuzzySubstitute ==
    /\ ret = Pending
    /\ call.fn = "_find_fuzzy_substitute"
    /\ ret' = <<_find_fuzzy_substitute(call.phoneme, call.available_phonemes, call.groups)>>
    /\ UNCHANGED <<pipeline, call>>

NextSubstitute == ApplyFindFuzzySubstitute

SpecSubstitute == InitSubstitute /\ [][NextSubstitute]_vars

\* the first member of the group that is available and not the target, by position
FirstAvailable(group, phoneme, available) ==
    group[Least({m \in 1..Len(group) : group[m] # phoneme /\ group[m] \in available})]

\* the groups that hold the target and an available other member
ServingGroups(phoneme, available, groups) ==
    {g \in 1..Len(groups) :
        /\ \E m \in 1..Len(groups[g]) : groups[g][m] = phoneme
        /\ \E m \in 1..Len(groups[g]) :
              groups[g][m] # phoneme /\ groups[g][m] \in available}

\* C23: the search returns the target when it is available; else, when a group
\* that holds the target holds an available phoneme, the first available member
\* of such a group; and none only when no group of the target has one
C23_MutualSubstitutes ==
    (ret # Pending /\ call.fn = "_find_fuzzy_substitute") =>
        LET serving == ServingGroups(call.phoneme, call.available_phonemes, call.groups)
        IN  IF call.phoneme \in call.available_phonemes THEN ret[1] = call.phoneme
            ELSE IF serving = {} THEN ret[1] = None
            ELSE \E g \in serving :
                    ret[1] = FirstAvailable(call.groups[g], call.phoneme,
                                            call.available_phonemes)

\* ---------------------------------------- simple export: _apply_extend, called directly

\* the longest audio and the largest extension explored, in time quanta
MaxAudio == 4
MaxExtend == 3

_apply_extend_one_sided(start_time, end_time, extend_duration, audio_duration) ==
    IF extend_duration <= 0 THEN <<start_time, end_time>>
    ELSE <<Max(0, start_time - extend_duration),
           Min(audio_duration, end_time + extend_duration)>>

_apply_extend(start_time, end_time, extend_duration, audio_duration) ==
    IF extend_duration <= 0 THEN <<start_time, end_time>>
    ELSE LET total_extend == extend_duration * 2
             new_start == Max(0, start_time - extend_duration)
             new_end == Min(audio_duration, end_time + extend_duration)
             used == (start_time - new_start) + (new_end - end_time)
             remaining == total_extend - used
             extra_end == Min(remaining, audio_duration - new_end)
         IN  IF remaining > 0
             THEN IF remaining - extra_end > 0
                  THEN <<Max(0, new_start - (remaining - extra_end)), new_end + extra_end>>
                  ELSE <<new_start, new_end + extra_end>>
             ELSE <<new_start, new_end>>

ExtendCalls ==
    {[fn |-> "_apply_extend", start_time |-> s, end_time |-> e,
      extend_duration |-> x, audio_duration |-> d] :
        s \in 0..MaxAudio, e \in 0..MaxAudio, x \in (0 - 1)..MaxExtend,
        d \in 0..MaxAudio}

InitExtend ==
    /\ PipelineIdle
    /\ call \in {c \in ExtendCalls :
                    c.start_time <= c.end_time /\ c.end_time <= c.audio_duration}
    /\ ret = Pending

ApplyExtend ==
    /\ ret = Pending
    /\ call.fn = "_apply_extend"
    /\ ret' = <<_apply_extend(call.start_time, call.end_time, call.extend_duration,
                              call.audio_duration)>>
    /\ UNCHANGED <<pipeline, call>>

NextExtend == ApplyExtend

SpecExtend == InitExtend /\ [][NextExtend]_vars

MaxRuns == 2
MaxTranscripts == 2

\* a unit a transcript yields (a character of a word, a merged syllable): the
\* name of its directory and the samples of audio[start_sample:end_sample]
Unit(name, samples) == [name |-> name, samples |-> samples]
UnitNames == <<"a", "ba">>

\* a transcript: wav is "missing" when slices_dir has no audio for it; tg is
\* "unparsable" when TextGrid.fromFile raises and "no_tier" when it has no tier
Transcript(wav, tg, units) == [wav |-> wav, tg |-> tg, units |-> units]
TranscriptKinds ==
    {Transcript("ok", "ok", <<Unit("ba", 1)>>),
     Transcript("ok", "ok", <<Unit("ba", 1), Unit("ba", 0), Unit("ba", 1)>>),
     Transcript("ok", "ok", <<Unit("a", 0), Unit("ba", 1), Unit("a", 1)>>),
     Transcript("missing", "ok", <<Unit("ba", 1)>>),
     Transcript("ok", "unparsable", <<>>),
     Transcript("ok", "no_tier", <<>>)}

\* textgrid_dir as a run finds it, in the order glob lists it
Banks == UNION {[1..n -> TranscriptKinds] : n \in 0..MaxTranscripts}

\* segments_dir and export_dir; a segment file is <name>/<index>.wav and run is
\* the run that wrote its content, an exported file carries the segment copied
NoFiles == [segments |-> {}, exported |-> {}]
\* the locals of one run: pinyin_counts / phone_counts, the transcripts still
\* to open, the units of the open transcript still to cut, and for the record
\* the transcripts read and the segment files written, in order
NoRun == [run |-> 0, next |-> 1, units |-> <<>>, counts |-> [n \in {} |-> 0],
          read |-> {}, written |-> <<>>]

InitSimple ==
    /\ pc = "idle"
    /\ language = "chinese" /\ cvvc_mode = FALSE
    /\ words_tier = <<>> /\ intervals = <<>> /\ i = 0
    /\ entries = <<>> /\ syllables = <<>>
    /\ call = [fn |-> "export", bank |-> <<>>, clean_temp |-> TRUE]
    /\ ret = Pending
    /\ disk = NoFiles
    /\ work = NoRun

Failed(msg) == <<[success |-> FALSE, msg |-> msg]>>

\* export up to the loop over tg_files: the segments directory is created if
\* it is missing and what it holds is left as it is
SimpleBegin ==
    /\ pc = "idle"
    /\ work.run < MaxRuns
    /\ \E bank \in Banks : \E lang \in {"chinese", "japanese"} : \E clean \in BOOLEAN :
          /\ call' = [fn |-> "export", bank |-> bank, clean_temp |-> clean]
          /\ language' = lang
          /\ work' = [NoRun EXCEPT !.run = work.run + 1]
          /\ IF bank = <<>>
             THEN pc' = "idle" /\ ret' = Failed("no TextGrid")
             ELSE pc' = "extract" /\ ret' = Pending
    /\ UNCHANGED <<cvvc_mode, words_tier, intervals, i, entries, syllables, disk>>

\* what the head of the loop body does with a transcript: "continue" skips it,
\* "raise" leaves _extract_segments through its except clause
Opened(t, lang) ==
    IF t.wav = "missing" THEN "continue"
    ELSE IF t.tg = "unparsable" THEN "raise"
    ELSE IF t.tg = "no_tier" THEN (IF IsJapanese(lang) THEN "continue" ELSE "raise")
    ELSE "read"

OpenTranscript ==
    /\ pc = "extract"
    /\ work.units = <<>>
    /\ work.next <= Len(call.bank)
    /\ LET t == call.bank[work.next]
           opened == Opened(t, language)
       IN  IF opened = "raise"
           THEN /\ pc' = "idle"
                /\ ret' = Failed("exception")
                /\ work' = work
           ELSE /\ pc' = "extract"
                /\ ret' = ret
                /\ work' = IF opened = "read"
                           THEN [work EXCEPT !.next = @ + 1, !.units = t.units,
                                             !.read = @ \cup {work.next}]
                           ELSE [work EXCEPT !.next = @ + 1]
    /\ UNCHANGED <<language, cvvc_mode, words_tier, intervals, i, entries, syllables,
                   call, disk>>

\* pinyin_counts.get(pinyin, 0)
CountOf(counts, name) == IF name \in DOMAIN counts THEN counts[name] ELSE 0

\* the counter of a name after a unit: a counter that keeps the index it took
CountAfterKept(current_count, samples) == current_count + 1

\* the counter of a name after a unit: the index is given back when the
\* segment is empty
CountAfter(current_count, samples) ==
    IF samples = 0 THEN current_count ELSE current_count + 1

\* one unit of the open transcript: the segment is written as <index>.wav in
\* the directory of its name, over whatever file is there
ExtractUnit ==
    /\ pc = "extract"
    /\ work.units # <<>>
    /\ LET u == Head(work.units)
           current_count == CountOf(work.counts, u.name)
           index == current_count + 1
           counts == [n \in DOMAIN work.counts \cup {u.name} |->
                         IF n = u.name THEN CountAfter(current_count, u.samples)
                         ELSE work.counts[n]]
       IN  IF u.samples = 0
           THEN /\ disk' = disk
                /\ work' = [work EXCEPT !.units = Tail(@), !.counts = counts]
           ELSE /\ disk' = [disk EXCEPT !.segments =
                               {f \in @ : ~(f.name = u.name /\ f.index = index)}
                               \cup {[name |-> u.name, index |-> index,
                                      run |-> work.run]}]
                /\ work' = [work EXCEPT !.units = Tail(@), !.counts = counts,
                                        !.written = Append(@, <<u.name, index>>)]
    /\ UNCHANGED <<pc, language, cvvc_mode, words_tier, intervals, i, entries,
                   syllables, call, ret>>

\* glob lists the segment files by name and index, or the other way round
Rank(f) ==
    10 * (CHOOSE k \in 1..Len(UnitNames) : UnitNames[k] = f.name) + f.index
RECURSIVE Listing(_)
Listing(files) ==
    IF files = {} THEN <<>>
    ELSE LET f == CHOOSE f \in files : \A g \in files : Rank(f) <= Rank(g)
         IN  <<f>> \o Listing(files \ {f})

\* export_dir after the copies, a later copy replacing an earlier one of the
\* same file name
Copies(copied) ==
    {[filename |-> copied[k].alias, name |-> copied[k].name,
      index |-> copied[k].index, run |-> copied[k].run] :
        k \in {k \in 1..Len(copied) :
                  \A m \in (k + 1)..Len(copied) : copied[m].alias # copied[k].alias}}

\* export after the extraction: export_dir is emptied, every file found in the
\* segments directory is scored and the best of each name are copied; then the
\* segments directory is removed if clean_temp is set
SortAndExport ==
    /\ pc = "extract"
    /\ work.units = <<>>
    /\ work.next > Len(call.bank)
    /\ pc' = "idle"
    /\ IF disk.segments = {}
       THEN /\ disk' = [disk EXCEPT !.exported = {}]
            /\ ret' = Failed("no segment")
       ELSE \E reversed \in BOOLEAN :
              LET listed == Listing(disk.segments)
                  wav_files == IF reversed THEN Reverse(listed) ELSE listed
                  stats == [k \in 1..Len(wav_files) |->
                              [alias |-> wav_files[k].name, quality_score |-> 0,
                               name |-> wav_files[k].name,
                               index |-> wav_files[k].index,
                               run |-> wav_files[k].run]]
                  done == _sort_and_export(stats, MaxSamples, naming_rule_default,
                                           first_naming_rule_default)
              IN  /\ disk' = [segments |-> IF call.clean_temp THEN {}
                                           ELSE disk.segments,
                              exported |-> Copies(done.filtered)]
                  /\ ret' = <<[success |-> TRUE, msg |-> "exported"]>>
    /\ UNCHANGED <<language, cvvc_mode, words_tier, intervals, i, entries, syllables,
                   call, work>>

NextSimple == SimpleBegin \/ OpenTranscript \/ ExtractUnit \/ SortAndExport

SpecSimple == InitSimple /\ [][NextSimple]_vars

RunEnded == pc = "idle" /\ ret # Pending

\* the transcripts of the batch that have their audio and a tier structure
Sound(t) == t.wav = "ok" /\ t.tg = "ok"

\* C24: a transcript without audio or with a tier structure that cannot be
\* parsed is skipped alone: when the run ends every other transcript of the
\* batch was read, and the run did not fail if one of them gave a segment
C24_BadTranscriptOnlySkipsItself ==
    (RunEnded /\ \E k \in 1..Len(call.bank) : ~Sound(call.bank[k])) =>
        /\ \A k \in 1..Len(call.bank) : Sound(call.bank[k]) => k \in work.read
        /\ (\E k \in 1..Len(call.bank) :
               /\ Sound(call.bank[k])
               /\ \E m \in 1..Len(call.bank[k].units) : call.bank[k].units[m].samples > 0)
           => ret[1].success


\* the writes of the run made under a name, by position in the record
WrittenUnder(name) == {k \in 1..Len(work.written) : work.written[k][1] = name}

\* C25: at every point of the extraction and for every name, the counter is the
\* number of segment files the run wrote under the name, the files are numbered
\* 1..counter without a gap, and no index was written twice
C25_CounterMatchesFiles ==
    \A n \in {UnitNames[k] : k \in 1..Len(UnitNames)} :
        /\ CountOf(work.counts, n) = Cardinality(WrittenUnder(n))
        /\ {work.written[k][2] : k \in WrittenUnder(n)} = 1..CountOf(work.counts, n)
        /\ \A k, m \in WrittenUnder(n) :
              work.written[k][2] = work.written[m][2] => k = m

\* a unit of "ba" was discarded for its empty range between two that were written
C25_Witness ==
    /\ pc = "extract"
    /\ work.read = {1} /\ work.units = <<>>
    /\ call.bank[1].units = <<Unit("ba", 1), Unit("ba", 0), Unit("ba", 1)>>
    /\ work.written = <<<<"ba", 1>>, <<"ba", 2>>>>
    /\ CountOf(work.counts, "ba") = 2


\* C30: when a run has exported, every file of export_dir is a copy of a segment
\* that this same run wrote; none is a segment an earlier run left behind
C30_OnlyThisRunsSegmentsExported ==
    (RunEnded /\ ret[1].success) => \A f \in disk.exported : f.run = work.run

\* ---------------------------------------- _copy_wav_files, called directly

\* in a file name "%" stands for the character 你 (pinyin "ni") and "^" for a
\* symbol that is no Chinese character; neither can be encoded in the target
\* encoding, every other character can
Unencodable == {"%", "^"}

\* the most files in one call
MaxWavs == 3

_is_filename_valid(filename) ==
    \A k \in 1..Len(filename) : SubSeq(filename, k, k) \notin Unencodable

\* os.path.splitext for a name that has an extension
LastDot(filename) ==
    CHOOSE k \in 1..Len(filename) :
        /\ SubSeq(filename, k, k) = "."
        /\ \A m \in (k + 1)..Len(filename) : SubSeq(filename, m, m) # "."

\* ''.join(lazy_pinyin(name)): a Chinese character becomes its pinyin, every
\* other character stays
RECURSIVE lazy_pinyin(_)
lazy_pinyin(name) ==
    IF name = "" THEN ""
    ELSE (IF SubSeq(name, 1, 1) = "%" THEN "ni" ELSE SubSeq(name, 1, 1))
         \o lazy_pinyin(SubSeq(name, 2, Len(name)))

NameCharacters ==
    {"a", "b", "c", "d", "e", "f", "g", "h", "i", "j", "k", "l", "m", "n", "o", "p",
     "q", "r", "s", "t", "u", "v", "w", "x", "y", "z", "A", "B", "C", "D", "E", "F",
     "G", "H", "I", "J", "K", "L", "M", "N", "O", "P", "Q", "R", "S", "T", "U", "V",
     "W", "X", "Y", "Z", "0", "1", "2", "3", "4", "5", "6", "7", "8", "9", "_", "-"}

\* re.sub(r'[^a-zA-Z0-9_\-]', '_', s) followed by re.sub(r'_+', '_', s)
RECURSIVE Underscored(_)
Underscored(s) ==
    IF s = "" THEN ""
    ELSE LET h == IF SubSeq(s, 1, 1) \in NameCharacters THEN SubSeq(s, 1, 1) ELSE "_"
             t == Underscored(SubSeq(s, 2, Len(s)))
         IN  IF h = "_" /\ StartsWith(t, "_") THEN t ELSE h \o t

\* the first of base_name, base_name_1, base_name_2, ... whose file name is free
RECURSIVE FreeName(_, _, _, _)
FreeName(base_name, counter, ext, used_names) ==
    LET sanitized == IF counter = 0 THEN base_name
                     ELSE base_name \o "_" \o ToString(counter)
    IN  IF (sanitized \o ext) \in used_names
        THEN FreeName(base_name, counter + 1, ext, used_names)
        ELSE sanitized \o ext

_sanitize_filename(filename, used_names) ==
    LET name == SubSeq(filename, 1, LastDot(filename) - 1)
        ext == SubSeq(filename, LastDot(filename), Len(filename))
        stripped == RStrip(LStrip(Underscored(lazy_pinyin(name)), {"_"}), {"_"})
        base_name == IF stripped = "" THEN "audio" ELSE stripped
    IN  FreeName(base_name, 0, ext, used_names)

\* the file names a bank can hold
SourceNames == {"ni.wav", "%.wav", "%^.wav", "ni_1.wav", "^.wav", "audio.wav"}

\* work holds the locals of the call: the names the loop has still to visit,
\* used_names and filename_map (as the set of its items)
InitCopy ==
    /\ pc = "copy"
    /\ language = "chinese" /\ cvvc_mode = FALSE
    /\ words_tier = <<>> /\ intervals = <<>> /\ i = 0
    /\ entries = <<>> /\ syllables = <<>>
    /\ \E wav_files \in SUBSET SourceNames : \E present \in SUBSET wav_files :
          /\ Cardinality(wav_files) <= MaxWavs
          /\ call = [fn |-> "_copy_wav_files", wav_files |-> wav_files]
          /\ disk = [slices_dir |-> present, export_dir |-> {}]
          /\ work = [todo |-> wav_files, used_names |-> {}, filename_map |-> {},
                     copied |-> 0]
    /\ ret = Pending

\* one turn of the loop over the set wav_files, which Python visits in an
\* order of its own
CopyWav ==
    /\ pc = "copy"
    /\ \E name \in work.todo :
          IF name \notin disk.slices_dir
          THEN /\ work' = [work EXCEPT !.todo = @ \ {name}]
               /\ disk' = disk
          ELSE LET new_name == IF _is_filename_valid(name) THEN name
                               ELSE _sanitize_filename(name, work.used_names)
               IN  /\ work' = [todo |-> work.todo \ {name},
                               used_names |-> work.used_names \cup {new_name},
                               filename_map |-> work.filename_map
                                                \cup {<<name, new_name>>},
                               copied |-> work.copied + 1]
                   /\ disk' = [disk EXCEPT !.export_dir =
                                  {f \in @ : f[1] # new_name}
                                  \cup {<<new_name, name>>}]
    /\ UNCHANGED <<pc, language, cvvc_mode, words_tier, intervals, i, entries,
                   syllables, call, ret>>

CopyReturn ==
    /\ pc = "copy"
    /\ work.todo = {}
    /\ pc' = "done"
    /\ ret' = <<<<work.copied, work.filename_map>>>>
    /\ UNCHANGED <<language, cvvc_mode, words_tier, intervals, i, entries, syllables,
                   call, disk, work>>

NextCopy == CopyWav \/ CopyReturn

SpecCopy == InitCopy /\ [][NextCopy]_vars

\* C29: the file name map is injective whatever the order of the copies: two
\* source files never get the same output name, so every copied file is still
\* in the export directory with its own content
C29_FilenameMapInjective ==
    /\ \A a, b \in work.filename_map : a[2] = b[2] => a[1] = b[1]
    /\ \A a \in work.filename_map : <<a[2], a[1]>> \in disk.export_dir


\* the simple units and the parsed syllables, as the phones they took
SimpleUnits == {k \in 1..Len(entries) : ~entries[k].is_vc}
FirstOf(members) == members[1]
LastOf(members) == members[Len(members)]

\* the groups of phones in unitsOf, a sequence, are disjoint and in time order
InTimeOrder(unitsOf, positions) ==
    \A k, m \in positions : k < m =>
        /\ LastOf(unitsOf[k].members) < FirstOf(unitsOf[m].members)
        /\ intervals[LastOf(unitsOf[k].members) + 1].maxTime
              <= intervals[FirstOf(unitsOf[m].members) + 1].minTime

\* C27: every iteration of the two loops moves the cursor forward by at least
\* one phone and never past the end of the tier, and at every point each phone
\* is in at most one emitted simple unit and at most one parsed syllable, and
\* the units and the syllables come in increasing time order
C27_CursorAdvances ==
    /\ [][pc' = pc => (i + 1 <= i' /\ i' <= Len(intervals))]_vars
    /\ [](/\ InTimeOrder(entries, SimpleUnits)
          /\ InTimeOrder(syllables, 1..Len(syllables))
          /\ \A k \in SimpleUnits : \A a, b \in 1..Len(entries[k].members) :
                a < b => entries[k].members[a] < entries[k].members[b]
          /\ \A k \in 1..Len(syllables) : \A a, b \in 1..Len(syllables[k].members) :
                a < b => syllables[k].members[a] < syllables[k].members[b])

\* both loops have ended with two units and two syllables, one of them of
\* several phones
C27_Witness ==
    /\ pc = "done"
    /\ Cardinality(SimpleUnits) >= 2
    /\ Len(syllables) >= 2
    /\ \E k \in SimpleUnits : Len(entries[k].members) >= 3
    /\ \E k \in 1..Len(syllables) : Len(syllables[k].members) >= 3


\* C28: a transition unit joins two syllables that are contiguous in the phone
\* tier: the first phone of the following syllable is the phone after the last
\* phone of the preceding one, so no skip mark and no discarded phone or
\* syllable lies between them
C28_TransitionOnlyContiguous ==
    pc = "done" =>
        \A k \in VcUnits :
            LET before == syllables[entries[k].members[1] + 1]
                after == syllables[entries[k].members[2] + 1]
            IN  LastOf(before.members) + 1 = FirstOf(after.members)

====
